---- MODULE Spec2Model ----
(***************************************************************************)
(* Cubotone: a Rubik's cube solving robot.                                 *)
(*                                                                         *)
(* The module models                                                       *)
(*   - the move translator of Cubotone_moves.py (spin table, flip          *)
(*     sequences, robot_moves),                                            *)
(*   - the cube movements of the scan phase (robot_next_side) and the      *)
(*     scan/solve cycle of cubeAF and __main__ in Cubotone.py.             *)
(*                                                                         *)
(* Python strings are modelled as sequences of one-character strings, so   *)
(* that slicing, find() and the formatting and parsing of the move strings *)
(* are computed as the code computes them.                                 *)
(***************************************************************************)
EXTENDS Integers, Sequences, FiniteSets, TLC

VARIABLES
    \* ---- robot_moves (Cubotone_moves.py) ----
    pc_moves,          \* position inside robot_moves
    solution_in,       \* the solution argument as passed by the caller
    solution,          \* local `solution`: the part of the string still to translate
    solution_Text,     \* the solution_Text argument
    moves,             \* local `moves`: number of blocks of movements
    move,              \* loop variable of robot_moves
    c_bottom,          \* tracked face on the bottom
    c_front,           \* tracked face on the front
    robot,             \* dict of the robot moves, key -> move string
    robot_tot_moves,   \* counter of the robot movements
    ref_orient,        \* rigid-cube reference replay of the emitted moves
    \* ---- one call of spin_func / flips_func ----
    pc_fn,             \* "call" before the call, "ret" after it
    fn_orient,         \* argument: current <<down, front>>
    fn_n_bot,          \* argument: face wanted on the bottom
    fn_spin,           \* result of spin_func
    fn_flips,          \* result of flips_func: flips
    fn_n_front,        \* result of flips_func: n_front
    fn_seq,            \* flip sequence flips_func computed the result on
    \* ---- scan and solve cycle on the robot (Cubotone.py) ----
    pc_main,           \* position of the main thread in __main__ / cubeAF
    side,              \* global `side`
    calib_i,           \* loop variable of robot_consistent_camera_images
    cycle,             \* number of cycles started in this run
    lighting,          \* light condition of the current cycle
    placement,         \* sticker colour of each face of the cube on the holder
    robot_running,     \* global `robot_running`
    robot_stop,        \* global `robot_stop`
    timeout,           \* global `timeout`
    time_over,         \* time.time() - camera_ready_time > detection_timeout
    frame_no,          \* frames taken since the last face was read, modulo 2
    quitting,          \* global `quitting`
    BGR_mean,          \* global list of the measured facelet colours
    URFDLB_facelets_BGR_mean,  \* the measured colours in the solver's order
    cube_orient,       \* <<down, front>> faces of the cube on the holder
    shown,             \* faces read by the camera in the current cycle
    cube_status,       \* cubeAF local: colour name per facelet
    cube_status_string,\* cubeAF local: cube definition string
    af_solution,       \* cubeAF local `solution`
    af_solution_Text,  \* cubeAF local `solution_Text`
    detect_winner,     \* cubeAF local `detect_winner`
    HSV_analysis,      \* cubeAF local `HSV_analysis`
    solver_calls,      \* calls of the solver made in the current cycle
    \* ---- one call of the colour interpretation functions (Cubotone.py) ----
    pc_interp,         \* "call", "BGR" after cube_colors_interpreted, "HSV" after the HSV one
    BGR_detected_arg,  \* argument: the 54 measured colours, URFDLB order
    HSV_detected_out,  \* cube_colors_interpreted: HSV_detected
    cube_status_BGR,   \* cube_colors_interpreted: cube_status
    sequence_BGR,      \* cube_colors_interpreted: cube_color_sequence
    analysis_BGR,      \* cube_colors_interpreted: HSV_analysis
    cube_status_URFDLB_out,   \* cube_colors_interpreted_HSV: cube_status_URFDLB
    cube_status_detected_out, \* cube_colors_interpreted_HSV: cube_status_detected
    sequence_HSV,      \* cube_colors_interpreted_HSV: cube_color_sequence
    analysis_HSV,      \* cube_colors_interpreted_HSV: HSV_analysis
    \* ---- the colour distance of two colours, both ways (Cubotone.py) ----
    pc_dist,           \* "call", "12" after the first call, "21" after the second
    color_1,           \* BGR colour whose L*a*b* is Lab_1 of the first call
    color_2,           \* BGR colour whose L*a*b* is Lab_2 of the first call
    dE_12,             \* CIEDE2000(Lab_1, Lab_2)
    dE_21,             \* CIEDE2000(Lab_2, Lab_1)
    \* ---- robot_move_cube and the stop button (Cubotone.py) ----
    pc_mc,             \* position of the main thread in robot_move_cube
    pc_button,         \* position of the thread of the stop button interrupt
    robot_moves_arg,   \* argument robot_moves: the dict of the moves, key -> move string
    total_robot_moves, \* argument total_robot_moves
    remaining_moves,   \* local `remaining_moves`
    displayed,         \* last value given to robot_show_remaining_moves
    mc_i,              \* local `i`
    mc_flip,           \* loop variable `flip`: flips of the move already called
    mc_aligned,        \* local `aligned`
    mc_robot_stop,     \* global `robot_stop` during the solving
    mc_robot_running,  \* global `robot_running` during the solving
    light_gate,        \* the cube holder is aligned (what sensor_check returns)
    commands,          \* movements commanded so far, in order
    late,              \* movements started after stop_cycle had set robot_stop
    after_failure,     \* movements commanded after a servo.flip returned False
    \* ---- InfiniteTimer (Cubotone.py) ----
    pc_caller,         \* position of the thread that calls start() and cancel()
    should_continue,   \* self._should_continue
    is_running,        \* self.is_running
    thread,            \* self.thread: None or a Timer
    timers,            \* Timer -> position of its thread
    finished,          \* the Timers whose `finished` event was set by cancel()
    calls,             \* calls of start() and cancel() made so far
    executions,        \* executions of the target begun since cancel() last returned
    after_cancel,      \* cancel() has returned on a started timer, no start() since
    \* ---- align_motor (Cubotone_servos.py) ----
    pc_align,          \* position inside align_motor
    motors,            \* global `motors`
    cover,             \* argument `cover`
    stepper_enable,    \* level of the GPIO pin stepper_enable (LOW = driver enabled)
    stepper_ms2,       \* level of the GPIO pin stepper_ms2 (HIGH = microsteps)
    alignment_ok,      \* local `alignment_ok`
    alignment_timeout, \* local `alignment_timeout`
    reverse_main_align_dir, \* local `reverse_main_align_dir`
    position,          \* local `position`
    align_i,           \* loop variable `i` of the alignment attempts
    motor_off_calls,   \* calls of motor_off made by align_motor
    align_ret          \* value returned by align_motor

vars_moves == <<pc_moves, solution_in, solution, solution_Text, moves, move,
                c_bottom, c_front, robot, robot_tot_moves, ref_orient>>
vars_fn == <<pc_fn, fn_orient, fn_n_bot, fn_spin, fn_flips, fn_n_front, fn_seq>>
vars_cycle == <<pc_main, side, calib_i, cycle, lighting, placement, robot_running,
                robot_stop, timeout, quitting, BGR_mean, URFDLB_facelets_BGR_mean,
                cube_orient, shown, cube_status, cube_status_string, af_solution,
                af_solution_Text, detect_winner, HSV_analysis, solver_calls, time_over,
                frame_no>>
vars_interp == <<pc_interp, BGR_detected_arg, HSV_detected_out, cube_status_BGR, sequence_BGR,
                 analysis_BGR, cube_status_URFDLB_out, cube_status_detected_out, sequence_HSV,
                 analysis_HSV>>
vars_dist == <<pc_dist, color_1, color_2, dE_12, dE_21>>
vars_mc == <<pc_mc, pc_button, robot_moves_arg, total_robot_moves, remaining_moves,
             displayed, mc_i, mc_flip, mc_aligned, mc_robot_stop, mc_robot_running,
             light_gate, commands, late, after_failure>>
vars_timer == <<pc_caller, should_continue, is_running, thread, timers, finished, calls,
                executions, after_cancel>>
vars_align == <<pc_align, motors, cover, stepper_enable, stepper_ms2, alignment_ok,
                alignment_timeout, reverse_main_align_dir, position, align_i,
                motor_off_calls, align_ret>>
vars == <<vars_moves, vars_fn, vars_cycle, vars_interp, vars_dist, vars_mc, vars_timer,
          vars_align>>

-----------------------------------------------------------------------------
(* Bounds *)

\* longest solution (in tokens) enumerated as input of robot_moves
MaxTokens == 2

\* the inputs of the colour interpretation have their facelets outside the
\* centres moved on by 0..MaxShift places
MaxShift == 2

\* scan cycles started in one run of the script
MaxCycles == 2

\* Timer objects made for one InfiniteTimer
MaxTimers == 4

\* calls of start() and cancel() on one InfiniteTimer
MaxCalls == 4

\* setting stp_rev (Cubotone_servos.py line 151), scaled down: steps of fast
\* rotation after which align_motor reverses the direction
stp_rev == 2

\* setting align_repeats (Cubotone_servos.py line 156)
align_repeats == 2

-----------------------------------------------------------------------------
(* Python string primitives *)

\* markers for a raised exception or an unbound local, one per type of value
Raise == "raise"

RaiseInt == 0 - 999

RaiseSeq == <<"raise">>

Digits == <<"0", "1", "2", "3", "4", "5", "6", "7", "8", "9">>

\* s.find(c) for a one-character c: lowest 0-based index, -1 when absent
Find(s, c) ==
    IF \E i \in 1..Len(s) : s[i] = c
    THEN (CHOOSE i \in 1..Len(s) : s[i] = c /\ \A j \in 1..(i-1) : s[j] # c) - 1
    ELSE -1

\* sub in s
InStr(sub, s) ==
    \E i \in 0..(Len(s) - Len(sub)) : \A k \in 1..Len(sub) : s[i+k] = sub[k]

\* a slice bound normalised as Python does
SliceBound(n, i) ==
    IF i < 0 THEN (IF n + i < 0 THEN 0 ELSE n + i) ELSE (IF i > n THEN n ELSE i)

\* s[i:j]
Slice(s, i, j) == SubSeq(s, SliceBound(Len(s), i) + 1, SliceBound(Len(s), j))

\* s[i:]
SliceFrom(s, i) == SubSeq(s, SliceBound(Len(s), i) + 1, Len(s))

\* s[i], Raise when out of range
Index(s, i) ==
    LET k == IF i < 0 THEN Len(s) + i ELSE i
    IN  IF k >= 0 /\ k < Len(s) THEN s[k+1] ELSE Raise

\* value of one decimal digit character
DigitVal(ch) == (CHOOSE i \in 1..10 : Digits[i] = ch) - 1

IsDigit(ch) == \E i \in 1..10 : Digits[i] = ch

RECURSIVE NatVal(_)
NatVal(s) ==
    IF Len(s) = 0 THEN 0
    ELSE 10 * NatVal(SubSeq(s, 1, Len(s) - 1)) + DigitVal(s[Len(s)])

\* int(s): Raise (ValueError) when s is not a decimal numeral
PyInt(s) ==
    LET body == IF Len(s) > 0 /\ s[1] = "-" THEN Tail(s) ELSE s
    IN  IF Len(body) = 0 \/ \E i \in 1..Len(body) : ~IsDigit(body[i]) THEN RaiseInt
        ELSE IF Len(s) > 0 /\ s[1] = "-" THEN 0 - NatVal(body) ELSE NatVal(body)

RECURSIVE PyStr(_)
\* str(n) for an integer n
PyStr(n) ==
    IF n < 0 THEN <<"-">> \o PyStr(0 - n)
    ELSE IF n < 10 THEN <<Digits[n+1]>>
    ELSE PyStr(n \div 10) \o <<Digits[(n % 10) + 1]>>

\* a list built element by element: the function as an explicit sequence
List(f) == SubSeq(f, 1, Len(f))

\* min() and list.index() on a list of integers
ListMin(l) == CHOOSE m \in {l[i] : i \in 1..Len(l)} : \A i \in 1..Len(l) : m <= l[i]

ListIndex(l, v) == Find(l, v)

-----------------------------------------------------------------------------
(* Cubotone_moves.py: tables *)

Faces == {"U", "R", "F", "D", "L", "B"}

\* rows (Current, Next_Orientation, Spin)
spinArr == <<
    <<<<"D","F">>, <<"D","L">>, 1>>, <<<<"D","F">>, <<"D","R">>, -1>>, <<<<"D","F">>, <<"D","B">>, 2>>,
    <<<<"F","U">>, <<"F","L">>, 1>>, <<<<"F","U">>, <<"F","R">>, -1>>, <<<<"F","U">>, <<"F","D">>, 2>>,
    <<<<"U","B">>, <<"U","L">>, 1>>, <<<<"U","B">>, <<"U","R">>, -1>>, <<<<"U","B">>, <<"U","F">>, 2>>,
    <<<<"B","D">>, <<"B","L">>, 1>>, <<<<"B","D">>, <<"B","R">>, -1>>, <<<<"B","D">>, <<"B","U">>, 2>>,
    <<<<"D","L">>, <<"D","B">>, 1>>, <<<<"D","L">>, <<"D","F">>, -1>>, <<<<"D","L">>, <<"D","R">>, 2>>,
    <<<<"D","R">>, <<"D","F">>, 1>>, <<<<"D","R">>, <<"D","B">>, -1>>, <<<<"D","R">>, <<"D","L">>, 2>>,
    <<<<"D","B">>, <<"D","R">>, 1>>, <<<<"D","B">>, <<"D","L">>, -1>>, <<<<"D","B">>, <<"D","F">>, 2>>,
    <<<<"F","L">>, <<"F","D">>, 1>>, <<<<"F","L">>, <<"F","U">>, -1>>, <<<<"F","L">>, <<"F","R">>, 2>>,
    <<<<"F","R">>, <<"F","U">>, 1>>, <<<<"F","R">>, <<"F","D">>, -1>>, <<<<"F","R">>, <<"F","L">>, 2>>,
    <<<<"F","D">>, <<"F","R">>, 1>>, <<<<"F","D">>, <<"F","L">>, -1>>, <<<<"F","D">>, <<"F","U">>, 2>>,
    <<<<"B","L">>, <<"B","U">>, 1>>, <<<<"B","L">>, <<"B","D">>, -1>>, <<<<"B","L">>, <<"B","R">>, 2>>,
    <<<<"B","U">>, <<"B","R">>, 1>>, <<<<"B","U">>, <<"B","L">>, -1>>, <<<<"B","U">>, <<"B","D">>, 2>>,
    <<<<"B","R">>, <<"B","D">>, 1>>, <<<<"B","R">>, <<"B","U">>, -1>>, <<<<"B","R">>, <<"B","L">>, 2>>,
    <<<<"U","L">>, <<"U","F">>, 1>>, <<<<"U","L">>, <<"U","B">>, -1>>, <<<<"U","L">>, <<"U","R">>, 2>>,
    <<<<"U","R">>, <<"U","B">>, 1>>, <<<<"U","R">>, <<"U","F">>, -1>>, <<<<"U","R">>, <<"U","L">>, 2>>,
    <<<<"U","F">>, <<"U","R">>, 1>>, <<<<"U","F">>, <<"U","L">>, -1>>, <<<<"U","F">>, <<"U","B">>, 2>>,
    <<<<"L","U">>, <<"L","B">>, 1>>, <<<<"L","U">>, <<"L","F">>, -1>>, <<<<"L","U">>, <<"L","D">>, 2>>,
    <<<<"L","B">>, <<"L","D">>, 1>>, <<<<"L","B">>, <<"L","U">>, -1>>, <<<<"L","B">>, <<"L","F">>, 2>>,
    <<<<"L","F">>, <<"L","U">>, 1>>, <<<<"L","F">>, <<"L","D">>, -1>>, <<<<"L","F">>, <<"L","B">>, 2>>,
    <<<<"L","D">>, <<"L","F">>, 1>>, <<<<"L","D">>, <<"L","B">>, -1>>, <<<<"L","D">>, <<"L","U">>, 2>>,
    <<<<"R","U">>, <<"R","F">>, 1>>, <<<<"R","U">>, <<"R","B">>, -1>>, <<<<"R","U">>, <<"R","D">>, 2>>,
    <<<<"R","F">>, <<"R","D">>, 1>>, <<<<"R","F">>, <<"R","U">>, -1>>, <<<<"R","F">>, <<"R","B">>, 2>>,
    <<<<"R","B">>, <<"R","U">>, 1>>, <<<<"R","B">>, <<"R","D">>, -1>>, <<<<"R","B">>, <<"R","F">>, 2>>,
    <<<<"R","D">>, <<"R","B">>, 1>>, <<<<"R","D">>, <<"R","F">>, -1>>, <<<<"R","D">>, <<"R","U">>, 2>>
>>

flip_seq == <<
    <<"D","F","U","B","D","F","U","B">>,
    <<"D","L","U","R","D","L","U","R">>,
    <<"D","R","U","L","D","R","U","L">>,
    <<"D","B","U","F","D","B","U","F">>,
    <<"F","L","B","R","F","L","B","R">>,
    <<"F","R","B","L","F","R","B","L">> >>

-----------------------------------------------------------------------------
(* Cubotone_moves.py: functions *)

\* spin_func with the test on the Current column lost
spin_func_anycurrent(current, next_orient) ==
    LET hits == {i \in 1..Len(spinArr) : spinArr[i][2] = next_orient}
    IN  IF hits = {} THEN 0
        ELSE spinArr[CHOOSE i \in hits : \A j \in hits : i <= j][3]

\* first row of spinArr matching (current, next_orient); 0 when there is none
spin_func(current, next_orient) ==
    LET hits == {i \in 1..Len(spinArr) :
                    spinArr[i][1] = current /\ spinArr[i][2] = next_orient}
    IN  IF hits = {} THEN 0
        ELSE spinArr[CHOOSE i \in hits : \A j \in hits : i <= j][3]

\* c_bottom_func as it was while the cube was put back to its initial
\* position after the scan
c_bottom_func_home(sol, mv) == IF mv = 0 THEN "D" ELSE "Error"

c_bottom_func(sol, mv) == IF mv = 0 THEN "R" ELSE "Error"

\* c_front_func as it was while the cube was put back to its initial
\* position after the scan
c_front_func_home(sol, mv) == IF mv = 0 THEN "F" ELSE "Error"

c_front_func(sol, mv) == IF mv = 0 THEN "B" ELSE "Error"

n_bottom_func(sol) == IF Len(sol) > 0 THEN sol[1] ELSE "Error"

c_orient_func(c_bot, c_frt) == <<c_bot, c_frt>>

\* c_n_bottom_func with the two faces concatenated the other way round
c_n_bottom_func_swapped(c_bot, n_bot) == <<n_bot, c_bot>>

c_n_bottom_func(c_bot, n_bot) == <<c_bot, n_bot>>

\* flips_func, first loop: the flip sequence holding the current orientation
\* (the local stays unbound when no sequence holds it)
c_flip_seq_of(c_orient, flip_sequences) ==
    LET hits == {k \in 1..Len(flip_sequences) : InStr(c_orient, flip_sequences[k])}
    IN  IF hits = {} THEN RaiseSeq
        ELSE flip_sequences[CHOOSE k \in hits : \A j \in hits : k <= j]

\* flips_func, second loop: flips from c_bot to n_bot on every flip sequence
flip_results(c_bot, n_bot, flip_sequences) ==
    [k \in 1..Len(flip_sequences) |->
        IF InStr(<<c_bot>>, flip_sequences[k]) /\ InStr(<<n_bot>>, flip_sequences[k])
        THEN Find(SliceFrom(flip_sequences[k], Find(flip_sequences[k], c_bot)), n_bot)
        ELSE 10]

\* n_flip_seq_of without the special case of the opposite face
n_flip_seq_of_alwaysmin(c_bot, n_bot, c_orient, flip_sequences) ==
    LET results == flip_results(c_bot, n_bot, flip_sequences)
        min_result == ListMin(results)
    IN  IF c_bot # n_bot
        THEN flip_seq[ListIndex(results, min_result) + 1]
        ELSE c_flip_seq_of(c_orient, flip_sequences)

\* flips_func: the flip sequence the result is computed on
n_flip_seq_of(c_bot, n_bot, c_orient, flip_sequences) ==
    LET results == flip_results(c_bot, n_bot, flip_sequences)
        min_result == ListMin(results)
    IN  IF c_bot # n_bot
        THEN IF min_result # 2
             THEN flip_seq[ListIndex(results, min_result) + 1]
             ELSE c_flip_seq_of(c_orient, flip_sequences)
        ELSE c_flip_seq_of(c_orient, flip_sequences)

\* flips_func counting the flips from the start of the sequence
flips_func_noslice(c_bot, n_bot, c_orient, flip_sequences) ==
    LET n_flip_seq == n_flip_seq_of(c_bot, n_bot, c_orient, flip_sequences)
    IN  IF n_flip_seq = RaiseSeq THEN <<RaiseInt, Raise>>
        ELSE << Find(n_flip_seq, n_bot),
                Index(n_flip_seq, Find(n_flip_seq, n_bot) + 1) >>

\* flips_func taking the new front one place too far
flips_func_frontoff(c_bot, n_bot, c_orient, flip_sequences) ==
    LET n_flip_seq == n_flip_seq_of(c_bot, n_bot, c_orient, flip_sequences)
    IN  IF n_flip_seq = RaiseSeq THEN <<RaiseInt, Raise>>
        ELSE << Find(SliceFrom(n_flip_seq, Find(n_flip_seq, c_bot)), n_bot),
                Index(n_flip_seq, Find(n_flip_seq, n_bot) + 2) >>

\* returns <<flips, n_front>>
flips_func(c_bot, n_bot, c_orient, flip_sequences) ==
    LET n_flip_seq == n_flip_seq_of(c_bot, n_bot, c_orient, flip_sequences)
    IN  IF n_flip_seq = RaiseSeq THEN <<RaiseInt, Raise>>
        ELSE << Find(SliceFrom(n_flip_seq, Find(n_flip_seq, c_bot)), n_bot),
                Index(n_flip_seq, Find(n_flip_seq, n_bot) + 1) >>

\* moves_of with a block counted for the empty string
moves_of_atleast1(sol) == IF Len(sol) < 2 THEN 1 ELSE (Len(sol) + 1) \div 3

\* moves = int(round(len(solution)/3, 0))
moves_of(sol) == (Len(sol) + 1) \div 3

\* rotations_of without the change of notation for 3 turns
rotations_of_keep3(sol) == PyInt(Slice(sol, 1, 2))

\* rotations: the digit of the token, 3 written as -1
rotations_of(sol) ==
    LET r == PyInt(Slice(sol, 1, 2)) IN IF r = 3 THEN 0 - 1 ELSE r

\* lines 176-179 with every quarter turn counted
single_action_each(n) == IF n < 0 THEN 0 - n ELSE n

\* lines 176-179: several spins, or several rotations, are one robot action
single_action(n) == IF n # 0 THEN 1 ELSE 0

\* 'S'+str(spin)+'F'+str(flips)+'R'+str(rotations)
move_string(spin, flips, rotations) ==
    <<"S">> \o PyStr(spin) \o <<"F">> \o PyStr(flips) \o <<"R">> \o PyStr(rotations)

\* robot_move_cube: the three fields read back from a move string
move_spins(m) == PyInt(Slice(m, Find(m, "S") + 1, Find(m, "F")))

move_flips(m) == PyInt(Slice(m, Find(m, "F") + 1, Find(m, "R")))

move_rotations(m) == PyInt(SliceFrom(m, Find(m, "R") + 1))

-----------------------------------------------------------------------------
(* Rigid-cube reference: the six faces as unit vectors of a right-handed    *)
(* frame (R = +x, U = +y, F = +z).  Used to state the claims only.          *)

Vec == [U |-> <<0, 1, 0>>, D |-> <<0, 0 - 1, 0>>, R |-> <<1, 0, 0>>,
        L |-> <<0 - 1, 0, 0>>, F |-> <<0, 0, 1>>, B |-> <<0, 0, 0 - 1>>]

FaceOf(v) == CHOOSE x \in Faces : Vec[x] = v

Cross(a, b) == << a[2]*b[3] - a[3]*b[2], a[3]*b[1] - a[1]*b[3], a[1]*b[2] - a[2]*b[1] >>

Opp(x) == FaceOf(<<0 - Vec[x][1], 0 - Vec[x][2], 0 - Vec[x][3]>>)

\* the 24 orientations <<down, front>> of a cube
ValidOrients == {o \in Faces \X Faces : o[2] # o[1] /\ o[2] # Opp(o[1])}

\* one quarter turn about the vertical axis, clockwise seen from below:
\* the face on the left comes to the front
RefSpin1(o) == <<o[1], FaceOf(Cross(Vec[o[1]], Vec[o[2]]))>>

\* spin k: k quarter turns (-1 is three of them)
RefSpin(o, k) ==
    IF k = 1 THEN RefSpin1(o)
    ELSE IF k = 2 THEN RefSpin1(RefSpin1(o))
    ELSE IF k = 0 - 1 THEN RefSpin1(RefSpin1(RefSpin1(o)))
    ELSE o

\* one flip: the front face becomes the down face, the old up face the front
RefFlip(o) == <<o[2], Opp(o[1])>>

RECURSIVE RefFlips(_, _)
RefFlips(o, n) == IF n <= 0 THEN o ELSE RefFlips(RefFlip(o), n - 1)

\* replay of one emitted move string (spin first, then the flips)
RefReplay(o, m) == RefFlips(RefSpin(o, move_spins(m)), move_flips(m))

-----------------------------------------------------------------------------
(* Inputs of robot_moves *)

Tokens == {<<f, d>> : f \in Faces, d \in {"1", "2", "3"}}

RECURSIVE Join(_)
\* the tokens separated by one space
Join(toks) ==
    IF Len(toks) = 0 THEN <<>>
    ELSE IF Len(toks) = 1 THEN toks[1]
    ELSE toks[1] \o <<" ">> \o Join(Tail(toks))

TokenLists == UNION {[1..n -> Tokens] : n \in 0..MaxTokens}

\* the solver's string ends with a space, a hand-written one does not
SolverStrings ==
    {Join(t) : t \in TokenLists} \cup {Join(t) \o <<" ">> : t \in TokenLists \ {<<>>}}

\* the string cube_solution returns for a rejected cube
ErrorString == <<"E", "r", "r", "o", "r", ":", " ">>

\* the solutions of the __main__ block of Cubotone_moves.py
\* 'B2 R2 L1 U2 R3 B1 U3 R2 L3 U1 B1 D1 F2 L2 D3 L2 U1 F2 R2 L2'
example_solution_1 ==
    << "B", "2", " ", "R", "2", " ", "L", "1", " ", "U", "2", " ", "R", "3", " ",
       "B", "1", " ", "U", "3", " ", "R", "2", " ", "L", "3", " ", "U", "1", " ",
       "B", "1", " ", "D", "1", " ", "F", "2", " ", "L", "2", " ", "D", "3", " ",
       "L", "2", " ", "U", "1", " ", "F", "2", " ", "R", "2", " ", "L", "2" >>

\* 'U2 D2 R2 L2 F2 B2'
example_solution_2 ==
    << "U", "2", " ", "D", "2", " ", "R", "2", " ", "L", "2", " ", "F", "2", " ",
       "B", "2" >>

\* 'R1 U2 F2 U3 B3 U3 F3 L1 B1 U1 D1 R2 L3 D2 B2 R1 D2 L3 D2 L3'
example_solution_3 ==
    << "R", "1", " ", "U", "2", " ", "F", "2", " ", "U", "3", " ", "B", "3", " ",
       "U", "3", " ", "F", "3", " ", "L", "1", " ", "B", "1", " ", "U", "1", " ",
       "D", "1", " ", "R", "2", " ", "L", "3", " ", "D", "2", " ", "B", "2", " ",
       "R", "1", " ", "D", "2", " ", "L", "3", " ", "D", "2", " ", "L", "3" >>

ExampleSolutions == {example_solution_1, example_solution_2, example_solution_3}

\* (solution, solution_Text) pairs: a solved cube string, or the error sentinel
MovesInputs ==
    {<<s, "ok">> : s \in SolverStrings \cup ExampleSolutions}
    \cup {<<s, "Error">> : s \in {ErrorString, <<>>, <<"U", "1">>}}

-----------------------------------------------------------------------------
(* robot_moves *)

IdleMoves ==
    /\ pc_moves = "idle"
    /\ solution_in = <<>>
    /\ solution = <<>>
    /\ solution_Text = "ok"
    /\ moves = 0
    /\ move = 0
    /\ c_bottom = "unset"
    /\ c_front = "unset"
    /\ robot = <<>>
    /\ robot_tot_moves = 0
    /\ ref_orient = <<"R", "B">>

InitMoves ==
    /\ pc_moves = "call"
    /\ \E inp \in MovesInputs :
          /\ solution_in = inp[1]
          /\ solution = inp[1]
          /\ solution_Text = inp[2]
    /\ moves = 0
    /\ move = 0
    /\ c_bottom = "unset"
    /\ c_front = "unset"
    /\ robot = <<>>
    /\ robot_tot_moves = 0
    /\ ref_orient = <<"R", "B">>

\* lines 148-152: empty dict, zero counter, number of blocks
robot_moves_enter ==
    /\ pc_moves = "call"
    /\ robot' = <<>>
    /\ robot_tot_moves' = 0
    /\ move' = 0
    /\ IF solution_Text # "Error"
       THEN moves' = moves_of(solution) /\ pc_moves' = "loop"
       ELSE moves' = moves /\ pc_moves' = "done"
    /\ UNCHANGED <<solution_in, solution, solution_Text, c_bottom, c_front, ref_orient>>

\* lines 154-181: one iteration of the loop over the blocks of movements
robot_moves_block ==
    /\ pc_moves = "loop"
    /\ move < moves
    /\ LET cb == IF move = 0 THEN c_bottom_func(solution, move) ELSE c_bottom
           cf == IF move = 0 THEN c_front_func(solution, move) ELSE c_front
           c_orient == c_orient_func(cb, cf)
           n_bottom == n_bottom_func(solution)
           c_n_bottom == c_n_bottom_func(cb, n_bottom)
           spin == spin_func(c_orient, c_n_bottom)
           ff == flips_func(cb, n_bottom, c_orient, flip_seq)
           flips == ff[1]
           n_front == ff[2]
           rotations == rotations_of(solution)
           entry == move_string(spin, flips, rotations)
       IN  IF flips = RaiseInt \/ n_front = Raise \/ rotations = RaiseInt
           THEN /\ pc_moves' = "raised"
                /\ UNCHANGED <<move, c_bottom, c_front, robot, solution,
                               robot_tot_moves, ref_orient>>
           ELSE /\ robot' = [k \in (DOMAIN robot) \cup {move + 1} |->
                                IF k = move + 1 THEN entry ELSE robot[k]]
                /\ c_bottom' = n_bottom
                /\ c_front' = n_front
                /\ solution' = SliceFrom(solution, 3)
                /\ robot_tot_moves' = robot_tot_moves
                                       + single_action(spin)
                                       + flips
                                       + single_action(rotations)
                /\ ref_orient' = RefReplay(ref_orient, entry)
                /\ move' = move + 1
                /\ pc_moves' = "loop"
    /\ UNCHANGED <<solution_in, solution_Text, moves>>

\* line 188: the loop is over, the dict and the counter are returned
robot_moves_return ==
    /\ pc_moves = "loop"
    /\ move >= moves
    /\ pc_moves' = "done"
    /\ UNCHANGED <<solution_in, solution, solution_Text, moves, move, c_bottom,
                   c_front, robot, robot_tot_moves, ref_orient>>

-----------------------------------------------------------------------------
(* One call of spin_func and flips_func on a valid orientation *)

IdleFn ==
    /\ pc_fn = "idle"
    /\ fn_orient = <<"R", "B">>
    /\ fn_n_bot = "R"
    /\ fn_spin = 0
    /\ fn_flips = 0
    /\ fn_n_front = "unset"
    /\ fn_seq = <<>>

InitFn ==
    /\ pc_fn = "call"
    /\ fn_orient \in ValidOrients
    /\ fn_n_bot \in Faces
    /\ fn_spin = 0
    /\ fn_flips = 0
    /\ fn_n_front = "unset"
    /\ fn_seq = <<>>

\* lines 160-165 of robot_moves: the two table look-ups for one token
orient_lookup ==
    /\ pc_fn = "call"
    /\ LET cb == fn_orient[1]
           c_orient == c_orient_func(fn_orient[1], fn_orient[2])
           ff == flips_func(cb, fn_n_bot, c_orient, flip_seq)
       IN  /\ fn_spin' = spin_func(c_orient, c_n_bottom_func(cb, fn_n_bot))
           /\ fn_flips' = ff[1]
           /\ fn_n_front' = ff[2]
           /\ fn_seq' = n_flip_seq_of(cb, fn_n_bot, c_orient, flip_seq)
    /\ pc_fn' = "ret"
    /\ UNCHANGED <<fn_orient, fn_n_bot>>

-----------------------------------------------------------------------------
(* Cubotone.py: colour data of the scan *)

\* std_cube_color, also the key order of cube_ref_colors
std_cube_color == <<"white", "red", "green", "yellow", "orange", "blue">>

cube_in_letters ==
    [white |-> "U", red |-> "R", green |-> "F", yellow |-> "D", orange |-> "L", blue |-> "B"]

robot_sides_order == <<"U", "B", "D", "F", "R", "L">>

kociemba_sides_order == <<"U", "R", "F", "D", "L", "B">>

\* facelet numbers (0-based, as in the code) of the six centres
centers == <<4, 13, 22, 31, 40, 49>>

\* the string 'Error'
Str_Error == <<"E", "r", "r", "o", "r">>

\* average BGR colour the camera measures on a sticker, per light condition:
\* "normal" separates the six colours, under "amber" the orange stickers read
\* yellowish, under "glare" the orange stickers read exactly as the red ones
Measured ==
    [normal |-> [white |-> <<200, 205, 210>>, red |-> <<45, 35, 200>>,
                 green |-> <<90, 170, 40>>, yellow |-> <<40, 225, 215>>,
                 orange |-> <<25, 65, 230>>, blue |-> <<200, 100, 30>>],
     amber  |-> [white |-> <<200, 205, 210>>, red |-> <<45, 35, 200>>,
                 green |-> <<90, 170, 40>>, yellow |-> <<40, 225, 215>>,
                 orange |-> <<30, 200, 170>>, blue |-> <<200, 100, 30>>],
     glare  |-> [white |-> <<200, 205, 210>>, red |-> <<45, 35, 200>>,
                 green |-> <<90, 170, 40>>, yellow |-> <<40, 225, 215>>,
                 orange |-> <<45, 35, 200>>, blue |-> <<200, 100, 30>>]]

Lightings == {"normal", "amber", "glare"}

\* sticker colour of each face of the cube as it is dropped on the robot:
\* conventional, or turned a quarter about the R-L axis
Placements ==
    { [U |-> "white", R |-> "red", F |-> "green", D |-> "yellow", L |-> "orange", B |-> "blue"],
      [U |-> "green", R |-> "red", F |-> "yellow", D |-> "blue", L |-> "orange", B |-> "white"] }

\* order in which the camera lists the nine facelets of the face it sees,
\* as positions of the viewer's point of view: upright on side 2, turned by
\* 180 degrees on sides 1, 3, 4 and by 90 degrees ccw on sides 5, 6
camera_facelets(sd) ==
    IF sd \in {1, 3, 4} THEN <<8, 7, 6, 5, 4, 3, 2, 1, 0>>
    ELSE IF sd \in {5, 6} THEN <<6, 3, 0, 7, 4, 1, 8, 5, 2>>
    ELSE <<0, 1, 2, 3, 4, 5, 6, 7, 8>>

rot_90_cw == <<2, 5, 8, 1, 4, 7, 0, 3, 6>>

\* robot_facelets_rotation: the facelets list in the viewer's order
robot_facelets_rotation(facelets, sd) ==
    IF sd \in {1, 3, 4} THEN List([i \in 1..Len(facelets) |-> facelets[Len(facelets) + 1 - i]])
    ELSE IF sd \in {5, 6} THEN List([i \in 1..9 |-> facelets[rot_90_cw[i] + 1]])
    ELSE facelets

\* read_color: one measurement per facelet, appended to BGR_mean
read_color(facelets, bgr_mean, face, light, place, cyc) ==
    bgr_mean \o List([i \in 1..Len(facelets) |->
                        [bgr |-> Measured[light][place[face]], cyc |-> cyc,
                         face |-> face, pos |-> facelets[i]]])

\* the gray facelet of a face not yet detected
gray_facelet == [bgr |-> <<230, 230, 230>>, cyc |-> 0, face |-> "none", pos |-> 0]

\* URFDLB_facelets_order on the robot: the first 54 entries of the padded
\* list, taken in blocks of nine from the robot order into the solver order
URFDLB_facelets_order(bgr_mean) ==
    LET padded == bgr_mean \o [i \in 1..(IF Len(bgr_mean) < 54 THEN 54 - Len(bgr_mean) ELSE 0)
                                  |-> gray_facelet]
        robot_block(s) == CHOOSE k \in 0..5 : robot_sides_order[k + 1] = s
        kociemba_facelets_list ==
            List([i \in 1..54 |-> 9 * robot_block(kociemba_sides_order[((i - 1) \div 9) + 1])
                                  + ((i - 1) % 9)])
    IN  List([i \in 1..54 |-> padded[kociemba_facelets_list[i] + 1]])

\* n / m rounded to the nearest integer, m > 0
RoundDiv(n, m) == (2 * n + m) \div (2 * m)

Max3(a, b, c) == IF a >= b /\ a >= c THEN a ELSE IF b >= c THEN b ELSE c

Min3(a, b, c) == IF a <= b /\ a <= c THEN a ELSE IF b <= c THEN b ELSE c

\* cv2.cvtColor(..., COLOR_BGR2HSV) on one 8-bit pixel: <<H, S, V>>, H in 0..179
BGR2HSV(bgr) ==
    LET b == bgr[1]
        g == bgr[2]
        r == bgr[3]
        v == Max3(b, g, r)
        d == v - Min3(b, g, r)
        s == IF v = 0 THEN 0 ELSE RoundDiv(255 * d, v)
        h == IF d = 0 THEN 0
             ELSE IF v = r THEN RoundDiv(30 * (g - b), d)
             ELSE IF v = g THEN 60 + RoundDiv(30 * (b - r), d)
             ELSE 120 + RoundDiv(30 * (r - g), d)
    IN  << IF h < 0 THEN h + 180 ELSE h, s, v >>

\* indices 1..Len(vals) sorted by increasing value, equal values in index
\* order: what sorted() and the repeated min() of the code both produce
StableOrder(vals) ==
    LET n == Len(vals)
        v == List(vals)
        place == List([i \in 1..n |->
                    Cardinality({j \in 1..n : v[j] < v[i] \/ (v[j] = v[i] /\ j < i)}) + 1])
    IN  List([p \in 1..n |-> CHOOSE i \in 1..n : place[i] = p])

\* list.index(min(list)) as a 1-based position
ArgMin(l) == ListIndex(l, ListMin(l)) + 1

ListMax(l) == CHOOSE m \in {l[i] : i \in 1..Len(l)} : \A i \in 1..Len(l) : m >= l[i]

ArgMax(l) == ListIndex(l, ListMax(l)) + 1

Abs(x) == IF x < 0 THEN 0 - x ELSE x

Min2(a, b) == IF a <= b THEN a ELSE b
-----------------------------------------------------------------------------
(* Cubotone.py: colour interpretation by BGR colour distance *)

\* the measured colours the distance is tabulated for: the six sticker
\* colours under the normal light, the orange stickers under the amber light,
\* the gray of the faces not yet read (line 2072) and a white one step of
\* red apart
Palette ==
    << <<200, 205, 210>>, <<45, 35, 200>>, <<90, 170, 40>>, <<40, 225, 215>>,
       <<25, 65, 230>>, <<200, 100, 30>>, <<30, 200, 170>>,
       <<230, 230, 230>>, <<200, 205, 211>> >>

\* rgb2lab of the colours of Palette: L, a, b in ten-thousandths (the
\* function rounds them to 4 decimals)
rgb2lab_table ==
    << <<826652, 8428, 30859>>,
       <<437572, 623320, 376175>>,
       <<616014, -522503, 315438>>,
       <<862313, -231578, 795699>>,
       <<525906, 617024, 573124>>,
       <<435959, 163970, -579106>>,
       <<760375, -301039, 719055>>,
       <<912930, 49, -96>>,
       <<827439, 11921, 32099>> >>

\* rgb2lab([R, G, B]) of a BGR colour
rgb2lab(bgr) == rgb2lab_table[CHOOSE i \in 1..Len(Palette) : Palette[i] = bgr]

\* CIEDE2000(rgb2lab(x), rgb2lab(y)) for the colours of Palette, in
\* thousandths, truncated
CIEDE2000_table ==
    << <<    0, 42519, 31138, 27966, 36899, 43674, 27874,  6373,   502>>,
       <<42519,     0, 72665, 66120, 12528, 43881, 65805, 46949, 42339>>,
       <<31138, 72665,     0, 29177, 66954, 69985, 21923, 33751, 31593>>,
       <<27966, 66120, 29177,     0, 57166, 76031,  8323, 29130, 28165>>,
       <<36899, 12528, 66954, 57166,     0, 48520, 57829, 41291, 36702>>,
       <<43674, 43881, 69985, 76031, 48520,     0, 74151, 45907, 43680>>,
       <<27874, 65805, 21923,  8323, 57829, 74151,     0, 30110, 28143>>,
       << 6373, 46949, 33751, 29130, 41291, 45907, 30110,     0,  6474>>,
       <<  502, 42339, 31593, 28165, 36702, 43680, 28143,  6474,     0>> >>

\* the table read by its upper half only
CIEDE2000_one_way(bgr_meas, bgr_ref) ==
    LET ix(c) == CHOOSE i \in 1..Len(Palette) : Palette[i] = c
    IN  IF ix(bgr_meas) <= ix(bgr_ref) THEN CIEDE2000_table[ix(bgr_meas)][ix(bgr_ref)] ELSE 0

\* colour distance of a measured colour from a reference colour
CIEDE2000(bgr_meas, bgr_ref) ==
    LET ix(c) == CHOOSE i \in 1..Len(Palette) : Palette[i] = c
    IN  CIEDE2000_table[ix(bgr_meas)][ix(bgr_ref)]

\* sqrt((x**2 + ref**2) / 2) per channel: the mean of a colour with itself
\* is that colour, any other mean is a colour outside the tabulated ones
ref_average(bgr, ref) == IF bgr = ref THEN ref ELSE <<"mean", bgr, ref>>

RECURSIVE interpret_ordered(_, _, _)
\* Step7: the facelets in increasing distance order, each one named after the
\* nearest reference (the first one on a tie), which is then averaged with it
interpret_ordered(BGR_ordered, i, cube_ref_colors) ==
    IF i > Len(BGR_ordered) THEN <<>>
    ELSE LET value == BGR_ordered[i]
             distance == List([c \in 1..6 |-> CIEDE2000(value, cube_ref_colors[c])])
             color == ArgMin(distance)
             refs == [cube_ref_colors EXCEPT ![color] = ref_average(value, cube_ref_colors[color])]
         IN  <<std_cube_color[color]>> \o interpret_ordered(BGR_ordered, i + 1, refs)

\* cube_colors_interpreted with the reference colours read from the centres
\* in the order the robot scans the sides
cube_colors_interpreted_scan_order(BGR_detected) ==
    LET scan_centers == <<4, 49, 31, 22, 13, 40>>
        cube_ref_colors == List([c \in 1..6 |-> BGR_detected[scan_centers[c] + 1].bgr])
        color_distance == List([f \in 1..54 |->
                              List([c \in 1..6 |-> CIEDE2000(BGR_detected[f].bgr, cube_ref_colors[c])])])
        key_ordered_by_color_distance ==
            StableOrder([f \in 1..54 |-> ListMin(color_distance[f])])
        BGR_ordered == List([k \in 1..54 |-> BGR_detected[key_ordered_by_color_distance[k]].bgr])
        cube_status_by_color_distance == interpret_ordered(BGR_ordered, 1, cube_ref_colors)
    IN  List([i \in 1..54 |->
            cube_status_by_color_distance[ListIndex(key_ordered_by_color_distance, i) + 1]])

\* cube_colors_interpreted, steps 1 to 8: the colour name of each facelet
cube_colors_interpreted(BGR_detected) ==
    LET cube_ref_colors == List([c \in 1..6 |-> BGR_detected[centers[c] + 1].bgr])
        color_distance == List([f \in 1..54 |->
                              List([c \in 1..6 |-> CIEDE2000(BGR_detected[f].bgr, cube_ref_colors[c])])])
        key_ordered_by_color_distance ==
            StableOrder([f \in 1..54 |-> ListMin(color_distance[f])])
        BGR_ordered == List([k \in 1..54 |-> BGR_detected[key_ordered_by_color_distance[k]].bgr])
        cube_status_by_color_distance == interpret_ordered(BGR_ordered, 1, cube_ref_colors)
    IN  List([i \in 1..54 |->
            cube_status_by_color_distance[ListIndex(key_ordered_by_color_distance, i) + 1]])

\* HSV_detected of cube_colors_interpreted: <<H, S, V>> per facelet
HSV_detected_of(BGR_detected) == List([i \in 1..54 |-> BGR2HSV(BGR_detected[i].bgr)])

\* cube_string: one letter per facelet
cube_string(status) ==
    List([i \in 1..Len(status) |-> cube_in_letters[status[i]]])
-----------------------------------------------------------------------------
(* Cubotone.py: colour interpretation by HSV *)

\* a local that no branch has assigned
Unbound == 0 - 1

\* the entries of cube_color_sequence before the centres are named
center_text == <<"4", "13", "22", "31", "40", "49">>

\* list.remove(x) on a list without repetitions
Remove(l, x) == SelectSeq(l, LAMBDA e : e # x)

\* the Hue filter for red met only by an opposite centre of Hue below 6
red_filter_above_orange(Hc, H_opp) == Hc > 150 /\ H_opp < 6

\* Hue filter for red vs orange
red_filter(Hc, H_opp) ==
    \/ (Hc > 150 /\ H_opp < 30)
    \/ (Hc < 30 /\ H_opp < 30 /\ Hc < H_opp)
    \/ (Hc > 160 /\ H_opp > 170 /\ Hc < H_opp)

\* Hue filter for orange vs red
orange_filter(Hc, H_opp) ==
    \/ (Hc < 30 /\ H_opp > 150)
    \/ (Hc < 30 /\ Hc > H_opp)
    \/ (Hc > 170 /\ Hc > H_opp)

opp_facelet_of(facelet) == IF facelet <= 27 THEN facelet + 27 ELSE facelet - 27

\* the value a loop over l leaves in a local assigned where P holds
LastAssigned(l, P(_)) ==
    IF \E k \in 1..Len(l) : P(l[k])
    THEN l[CHOOSE k \in 1..Len(l) : P(l[k]) /\ \A j \in (k+1)..Len(l) : ~P(l[j])]
    ELSE Unbound

\* retrieve_cube_color_order: <<cube_color_sequence, HSV_analysis>>
retrieve_cube_color_order(VS_value, Hue) ==
    LET VS_centers == List([c \in 1..6 |-> VS_value[centers[c] + 1]])
        white_center == centers[ArgMax(VS_centers)]
        yellow_center == IF white_center < 27 THEN white_center + 27 ELSE white_center - 27
        centers4 == Remove(Remove(centers, white_center), yellow_center)
        is_red(f) == red_filter(Hue[f + 1], Hue[opp_facelet_of(f) + 1])
        is_orange(f) == ~is_red(f) /\ orange_filter(Hue[f + 1], Hue[opp_facelet_of(f) + 1])
        red_center == LastAssigned(centers4, is_red)
        orange_center == LastAssigned(centers4, is_orange)
        centers3 == IF red_center # Unbound THEN Remove(centers4, red_center) ELSE centers4
        centers2 == IF orange_center # Unbound THEN Remove(centers3, orange_center) ELSE centers3
        HSV_ok == red_center # Unbound /\ orange_center # Unbound
        Hc == List([k \in 1..Len(centers2) |-> Hue[centers2[k] + 1]])
        blue_center == centers2[ArgMax(Hc)]
        green_center == centers2[ArgMin(Hc)]
        named(c) == LET value == centers[c]
                    IN  IF value = white_center THEN "white"
                        ELSE IF value = yellow_center THEN "yellow"
                        ELSE IF value = red_center THEN "red"
                        ELSE IF value = orange_center THEN "orange"
                        ELSE IF value = blue_center THEN "blue"
                        ELSE IF value = green_center THEN "green"
                        ELSE center_text[c]
    IN  IF HSV_ok THEN << List([c \in 1..6 |-> named(c)]), TRUE >>
        ELSE << center_text, FALSE >>

\* the ten facelets with the highest V+(V-S)-abs(3*deltaH)
white_facelets_of_ten(HSV_detected, white_center) ==
    LET Hw == HSV_detected[white_center + 1][1]
        VSdelta == List([i \in 1..54 |->
                       HSV_detected[i][3] + HSV_detected[i][3] - HSV_detected[i][2]
                       - Abs(3 * (HSV_detected[i][1] - Hw))])
        key_ordered_by_VSdelta == StableOrder(VSdelta)
    IN  {key_ordered_by_VSdelta[k] : k \in 45..54}

\* cube_colors_interpreted_HSV, lines 1734-1752: the nine facelets with the
\* highest V+(V-S)-abs(3*deltaH), white centre as reference
white_facelets_of(HSV_detected, white_center) ==
    LET Hw == HSV_detected[white_center + 1][1]
        VSdelta == List([i \in 1..54 |->
                       HSV_detected[i][3] + HSV_detected[i][3] - HSV_detected[i][2]
                       - Abs(3 * (HSV_detected[i][1] - Hw))])
        key_ordered_by_VSdelta == StableOrder(VSdelta)
    IN  {key_ordered_by_VSdelta[k] : k \in 46..54}

\* cube_colors_interpreted_HSV, lines 1798-1814: the colour of a facelet that
\* is not white, by Hue distance from the five coloured centres
color_by_hue(H_facelet, Hcenters, red_blue_avg, few_above, cube_color_sequence_no_white) ==
    LET Hdistance ==
            List([k \in 1..5 |->
                IF few_above
                THEN LET H == IF H_facelet > red_blue_avg THEN 0 ELSE H_facelet
                         Hc == IF Hcenters[k] > red_blue_avg THEN 0 ELSE Hcenters[k]
                     IN  Min2(Abs(H - Hc), 180 - Hc + H)
                ELSE Min2(Abs(H_facelet - Hcenters[k]), 180 - Hcenters[k] + H_facelet)])
    IN  cube_color_sequence_no_white[ArgMin(Hdistance)]

\* cube_colors_interpreted_HSV, lines 1780-1840, once the white facelets
\* are known: <<cube_status_URFDLB, cube_status_detected>>
colored_facelets_of(Hue, white_facelets_list, cube_color_sequence, colored_centers) ==
    LET no_white == Remove(cube_color_sequence, "white")
        Hcenters == List([k \in 1..5 |-> Hue[colored_centers[k] + 1]])
        Hc_red == Hue[colored_centers[ListIndex(no_white, "red") + 1] + 1]
        Hc_blue == Hue[colored_centers[ListIndex(no_white, "blue") + 1] + 1]
        above(avg) == Cardinality({i \in (1..54) \ white_facelets_list : Hue[i] > avg}) < 5
    IN  CHOOSE both \in
          { << List([i \in 1..54 |->
                  IF cube_color_sequence # std_cube_color
                  THEN std_cube_color[ListIndex(cube_color_sequence, cube_status_detected[i]) + 1]
                  ELSE cube_status_detected[i]]),
               cube_status_detected >> :
            cube_status_detected \in
              { List([i \in 1..54 |->
                    IF i \in white_facelets_list THEN "white"
                    ELSE color_by_hue(Hue[i], Hc, avg_few[1], avg_few[2], nw)]) :
                Hc \in {Hcenters}, nw \in {no_white},
                avg_few \in {<<avg, above(avg)>> : avg \in {(Hc_red + Hc_blue) \div 2}} } } : TRUE

\* cube_colors_interpreted_HSV:
\* <<cube_status_URFDLB, cube_status_detected, cube_color_sequence, HSV_analysis>>
cube_colors_interpreted_HSV(HSV_detected) ==
    CHOOSE result \in
      { IF ~rc[2] THEN <<<<>>, <<>>, rc[1], FALSE>>
        ELSE LET white_center == centers[ListIndex(rc[1], "white") + 1]
                 colored_centers == Remove(centers, white_center)
             IN  CHOOSE res \in
                   { IF \A k \in 1..5 : (colored_centers[k] + 1) \notin white_facelets_list
                     THEN CHOOSE r4 \in
                            { <<both[1], both[2], rc[1], TRUE>> :
                              both \in {colored_facelets_of(
                                            List([i \in 1..54 |-> HSV_detected[i][1]]),
                                            white_facelets_list, rc[1], colored_centers)} } : TRUE
                     ELSE <<<<>>, <<>>, rc[1], FALSE>> :
                     white_facelets_list \in {white_facelets_of(HSV_detected, white_center)} } : TRUE :
        rc \in { retrieve_cube_color_order(
                     List([i \in 1..54 |-> HSV_detected[i][3] - HSV_detected[i][2]]),
                     List([i \in 1..54 |-> HSV_detected[i][1]])) } } : TRUE

-----------------------------------------------------------------------------
(* Cubotone.py: one call of the colour interpretation functions *)

\* sticker colour of the faces U, R, F, D, L, B of a solved cube held with
\* face o[1] down and face o[2] to the front
face_colors(o) ==
    LET col == [U |-> "white", R |-> "red", F |-> "green",
                D |-> "yellow", L |-> "orange", B |-> "blue"]
        right == FaceOf(Cross(Vec[Opp(o[1])], Vec[o[2]]))
    IN  <<col[Opp(o[1])], col[right], col[o[2]], col[o[1]], col[Opp(right)], col[Opp(o[2])]>>

\* the 48 facelets (0-based) that are not centres
not_centers == SelectSeq(List([i \in 1..54 |-> i - 1]), LAMBDA i : i % 9 # 4)

\* colour name of the 54 facelets: the colours of six faces, the facelets
\* that are not centres moved on by `shift` places among themselves
facelet_colors(cols, shift) ==
    List([i \in 1..54 |->
        IF (i - 1) % 9 = 4 THEN cols[((i - 1) \div 9) + 1]
        ELSE LET j == ListIndex(not_centers, i - 1)
             IN  cols[(not_centers[((j + shift) % 48) + 1] \div 9) + 1]])

\* the BGR_detected list of a scan
BGR_detected_of(light, cols, shift) ==
    CHOOSE l \in { List([i \in 1..54 |-> [bgr |-> Measured[light][fc[i]]]]) :
                   fc \in {facelet_colors(cols, shift)} } : TRUE

\* the faces of the conventionally held cube, face `again` read where face
\* `missed` should have been
side_twice(again, missed) ==
    LET cols == face_colors(<<"D", "F">>) IN [cols EXCEPT ![missed] = cols[again]]

\* arguments of the calls: a cube in any of its 24 orientations under every
\* light, and the scans that read one side twice
InterpInputs ==
    { BGR_detected_of(light, face_colors(o), shift) :
        light \in Lightings, o \in ValidOrients, shift \in 0..MaxShift }
    \cup { BGR_detected_of("normal", side_twice(a, m), 0) :
             a \in 1..6, m \in 1..6 }

IdleInterp ==
    /\ pc_interp = "idle"
    /\ BGR_detected_arg = <<>>
    /\ HSV_detected_out = <<>>
    /\ cube_status_BGR = <<>>
    /\ sequence_BGR = <<>>
    /\ analysis_BGR = FALSE
    /\ cube_status_URFDLB_out = <<>>
    /\ cube_status_detected_out = <<>>
    /\ sequence_HSV = <<>>
    /\ analysis_HSV = FALSE

InitInterp ==
    /\ pc_interp = "call"
    /\ BGR_detected_arg \in InterpInputs
    /\ HSV_detected_out = <<>>
    /\ cube_status_BGR = <<>>
    /\ sequence_BGR = <<>>
    /\ analysis_BGR = FALSE
    /\ cube_status_URFDLB_out = <<>>
    /\ cube_status_detected_out = <<>>
    /\ sequence_HSV = <<>>
    /\ analysis_HSV = FALSE

\* cube_colors_interpreted(BGR_detected), lines 1450-1578
interpret_BGR ==
    /\ pc_interp = "call"
    /\ \E status \in {cube_colors_interpreted(BGR_detected_arg)},
          hsv \in {HSV_detected_of(BGR_detected_arg)} :
          \E rc \in { retrieve_cube_color_order(
                          List([i \in 1..54 |-> hsv[i][3] - hsv[i][2]]),
                          List([i \in 1..54 |-> hsv[i][1]])) } :
             /\ cube_status_BGR' = status
             /\ HSV_detected_out' = hsv
             /\ sequence_BGR' = rc[1]
             /\ analysis_BGR' = rc[2]
    /\ pc_interp' = "BGR"
    /\ UNCHANGED <<BGR_detected_arg, cube_status_URFDLB_out, cube_status_detected_out,
                   sequence_HSV, analysis_HSV>>

\* cube_colors_interpreted_HSV(BGR_detected, HSV_detected), lines 1689-1848
interpret_HSV ==
    /\ pc_interp = "BGR"
    /\ \E res \in {cube_colors_interpreted_HSV(HSV_detected_out)} :
          /\ cube_status_URFDLB_out' = res[1]
          /\ cube_status_detected_out' = res[2]
          /\ sequence_HSV' = res[3]
          /\ analysis_HSV' = res[4]
    /\ pc_interp' = "HSV"
    /\ UNCHANGED <<BGR_detected_arg, HSV_detected_out, cube_status_BGR, sequence_BGR, analysis_BGR>>

-----------------------------------------------------------------------------
(* Cubotone.py: the colour distance of two colours, taken both ways *)

\* no distance computed
NoDistance == 0 - 1

IdleDist ==
    /\ pc_dist = "idle"
    /\ color_1 = <<>>
    /\ color_2 = <<>>
    /\ dE_12 = NoDistance
    /\ dE_21 = NoDistance

InitDist ==
    /\ pc_dist = "call"
    /\ color_1 \in {Palette[i] : i \in 1..Len(Palette)}
    /\ color_2 \in {Palette[i] : i \in 1..Len(Palette)}
    /\ dE_12 = NoDistance
    /\ dE_21 = NoDistance

\* CIEDE2000(tuple(lab_meas), lab_ref) as at line 1540
distance_12 ==
    /\ pc_dist = "call"
    /\ dE_12' = CIEDE2000(color_1, color_2)
    /\ pc_dist' = "12"
    /\ UNCHANGED <<color_1, color_2, dE_21>>

\* the same call with the two colours exchanged
distance_21 ==
    /\ pc_dist = "12"
    /\ dE_21' = CIEDE2000(color_2, color_1)
    /\ pc_dist' = "21"
    /\ UNCHANGED <<color_1, color_2, dE_12>>

-----------------------------------------------------------------------------
(* Cubotone.py: robot_move_cube, with the interrupt of the stop button *)

\* the moves a dict given to robot_move_cube is made of
DictMoves == { move_string(sp, fl, 2) : sp \in {0, 1}, fl \in {0, 1, 2} }

\* the dicts of 1..n moves, keys 1..n
DictsUpTo(n) == UNION { [1..k -> DictMoves] : k \in 1..n }

RECURSIVE total_of_flips_once(_, _)
\* the total with the flips of a move counted as one action
total_of_flips_once(rob, n) ==
    IF n = 0 THEN 0
    ELSE total_of_flips_once(rob, n - 1) + single_action(move_spins(rob[n]))
         + single_action(move_flips(rob[n])) + single_action(move_rotations(rob[n]))

RECURSIVE total_of(_, _)
\* robot_tot_moves as robot_moves counts it over the first n moves of a dict
total_of(rob, n) ==
    IF n = 0 THEN 0
    ELSE total_of(rob, n - 1) + single_action(move_spins(rob[n])) + move_flips(rob[n])
         + single_action(move_rotations(rob[n]))

\* nothing shown on the display
NotShown == 0 - 1

IdleMoveCube ==
    /\ pc_mc = "idle"
    /\ pc_button = "idle"
    /\ robot_moves_arg = <<>>
    /\ total_robot_moves = 0
    /\ remaining_moves = 0
    /\ displayed = NotShown
    /\ mc_i = 0
    /\ mc_flip = 0
    /\ mc_aligned = TRUE
    /\ mc_robot_stop = FALSE
    /\ mc_robot_running = FALSE
    /\ light_gate = TRUE
    /\ commands = <<>>
    /\ late = {}
    /\ after_failure = {}

\* robot_move_cube, lines 2665-2673, called by robot_solve_cube (line 3473)
\* with the dict and the total of robot_moves while robot_stop is False
InitMoveCube ==
    /\ pc_mc = "loop"
    /\ pc_button = "armed"
    /\ robot_moves_arg \in DictsUpTo(MaxTokens)
    /\ total_robot_moves = total_of(robot_moves_arg, Len(robot_moves_arg))
    /\ remaining_moves = total_robot_moves
    /\ displayed = NotShown
    /\ mc_i = 0
    /\ mc_flip = 0
    /\ mc_aligned = TRUE
    /\ mc_robot_stop = FALSE
    /\ mc_robot_running = TRUE
    /\ light_gate \in BOOLEAN
    /\ commands = <<>>
    /\ late = {}
    /\ after_failure = {}

\* the move of the current iteration
mc_move == robot_moves_arg[mc_i + 1]

\* a movement is commanded: it is logged, with the ones started while
\* robot_stop is set and the ones commanded after a failed alignment
Command(kind) ==
    /\ commands' = Append(commands, kind)
    /\ late' = IF mc_robot_stop THEN late \cup {kind} ELSE late
    /\ after_failure' = IF ~mc_aligned THEN after_failure \cup {kind} ELSE after_failure

\* lines 2675-2676 and 2724-2726: next move of the dict unless robot_stop
mc_loop ==
    /\ pc_mc = "loop"
    /\ pc_mc' = IF mc_i < Len(robot_moves_arg) /\ ~mc_robot_stop THEN "spin_test" ELSE "returned"
    /\ UNCHANGED <<pc_button, robot_moves_arg, total_robot_moves, remaining_moves, displayed,
                   mc_i, mc_flip, mc_aligned, mc_robot_stop, mc_robot_running, light_gate,
                   commands, late, after_failure>>

\* lines 2690-2691, 2694: the tests before servo.spin
mc_spin_test ==
    /\ pc_mc = "spin_test"
    /\ IF move_spins(mc_move) # 0 /\ ~mc_robot_stop
       THEN pc_mc' = "spin_call" /\ UNCHANGED displayed
       ELSE pc_mc' = "flips_test" /\ displayed' = remaining_moves
    /\ UNCHANGED <<pc_button, robot_moves_arg, total_robot_moves, remaining_moves,
                   mc_i, mc_flip, mc_aligned, mc_robot_stop, mc_robot_running, light_gate,
                   commands, late, after_failure>>

\* lines 2692-2694: servo.spin, the holder may end off the light gate
mc_spin_call ==
    /\ pc_mc = "spin_call"
    /\ Command("spin")
    /\ light_gate' \in BOOLEAN
    /\ remaining_moves' = remaining_moves - 1
    /\ displayed' = remaining_moves - 1
    /\ pc_mc' = "flips_test"
    /\ UNCHANGED <<pc_button, robot_moves_arg, total_robot_moves, mc_i, mc_flip, mc_aligned,
                   mc_robot_stop, mc_robot_running>>

\* lines 2696-2698, 2702-2703, 2707: the tests before the loop of the flips
mc_flips_test ==
    /\ pc_mc = "flips_test"
    /\ IF move_flips(mc_move) # 0 /\ ~mc_robot_stop
       THEN pc_mc' = "flip_call" /\ mc_flip' = 0 /\ UNCHANGED displayed
       ELSE pc_mc' = "rotate_test" /\ displayed' = remaining_moves /\ UNCHANGED mc_flip
    /\ UNCHANGED <<pc_button, robot_moves_arg, total_robot_moves, remaining_moves,
                   mc_i, mc_aligned, mc_robot_stop, mc_robot_running, light_gate,
                   commands, late, after_failure>>

\* servo.flip(1, debug, 'open', go), Cubotone_servos.py lines 386-409:
\* <<aligned, light gate after the call, movements commanded>>; the holder
\* is aligned first when it is off the light gate, the flipper is raised
\* only when go is true and the holder is at the light gate
servo_flip(gate, go, align_ok) ==
    LET aligned == IF gate THEN TRUE ELSE align_ok
        gate_after == IF gate THEN TRUE ELSE align_ok
    IN  << aligned, gate_after,
           (IF gate THEN <<>> ELSE <<"align">>) \o (IF gate_after /\ go THEN <<"flip">> ELSE <<>>) >>

\* lines 2699-2701 (2704-2706): one pass of `for flip in range(flips)`
mc_flip_call ==
    /\ pc_mc = "flip_call"
    /\ IF mc_flip < move_flips(mc_move)
       THEN \E align_ok \in BOOLEAN :
              \E res \in {servo_flip(light_gate, ~mc_robot_stop, align_ok)} :
                 /\ mc_aligned' = res[1]
                 /\ light_gate' = res[2]
                 /\ commands' = commands \o res[3]
                 /\ late' = IF mc_robot_stop THEN late \cup {res[3][k] : k \in 1..Len(res[3])}
                            ELSE late
                 /\ after_failure' = IF ~mc_aligned
                                     THEN after_failure \cup {res[3][k] : k \in 1..Len(res[3])}
                                     ELSE after_failure
                 /\ remaining_moves' = remaining_moves - 1
                 /\ mc_flip' = mc_flip + 1
                 /\ UNCHANGED <<pc_mc, displayed>>
       ELSE /\ pc_mc' = "rotate_test"
            /\ displayed' = remaining_moves
            /\ UNCHANGED <<mc_aligned, light_gate, commands, late, after_failure,
                           remaining_moves, mc_flip>>
    /\ UNCHANGED <<pc_button, robot_moves_arg, total_robot_moves, mc_i, mc_robot_stop,
                   mc_robot_running>>

\* lines 2710-2718: the tests before servo.rotate; the count is lowered also
\* when the rotation is not made
mc_rotate_test ==
    /\ pc_mc = "rotate_test"
    /\ IF move_rotations(mc_move) # 0
       THEN IF ~mc_robot_stop
            THEN pc_mc' = "rotate_call" /\ UNCHANGED <<remaining_moves, displayed>>
            ELSE /\ pc_mc' = "aligned_test"
                 /\ remaining_moves' = remaining_moves - 1
                 /\ displayed' = remaining_moves - 1
       ELSE /\ pc_mc' = "aligned_test"
            /\ displayed' = remaining_moves
            /\ UNCHANGED remaining_moves
    /\ UNCHANGED <<pc_button, robot_moves_arg, total_robot_moves, mc_i, mc_flip, mc_aligned,
                   mc_robot_stop, mc_robot_running, light_gate, commands, late, after_failure>>

\* lines 2713 (2716), 2717-2718: servo.rotate
mc_rotate_call ==
    /\ pc_mc = "rotate_call"
    /\ Command("rotate")
    /\ light_gate' \in BOOLEAN
    /\ remaining_moves' = remaining_moves - 1
    /\ displayed' = remaining_moves - 1
    /\ pc_mc' = "aligned_test"
    /\ UNCHANGED <<pc_button, robot_moves_arg, total_robot_moves, mc_i, mc_flip, mc_aligned,
                   mc_robot_stop, mc_robot_running>>

\* lines 2720-2726: quit_func when the holder could not be aligned (the
\* script exits), else the next move
mc_aligned_test ==
    /\ pc_mc = "aligned_test"
    /\ IF ~mc_aligned
       THEN /\ pc_mc' = "exited"
            /\ mc_robot_stop' = TRUE
            /\ mc_robot_running' = FALSE
            /\ UNCHANGED mc_i
       ELSE /\ pc_mc' = "loop"
            /\ mc_i' = mc_i + 1
            /\ UNCHANGED <<mc_robot_stop, mc_robot_running>>
    /\ UNCHANGED <<pc_button, robot_moves_arg, total_robot_moves, remaining_moves, displayed,
                   mc_flip, mc_aligned, light_gate, commands, late, after_failure>>

\* stop_cycle, lines 3240-3256: the interrupt of the button, in its own
\* thread while robot_move_cube is running; the exit() that ends quit_func
\* ends that thread only
mc_stop_cycle ==
    /\ pc_button = "armed"
    /\ pc_mc \notin {"returned", "exited"}
    /\ mc_robot_running
    /\ mc_robot_stop' = TRUE
    /\ mc_robot_running' = FALSE
    /\ pc_button' = "pressed"
    /\ UNCHANGED <<pc_mc, robot_moves_arg, total_robot_moves, remaining_moves, displayed,
                   mc_i, mc_flip, mc_aligned, light_gate, commands, late, after_failure>>

-----------------------------------------------------------------------------
(* Cubotone.py: InfiniteTimer, with the threads of its Timers and the      *)
(* thread that calls start() and cancel()                                  *)

\* self.thread before the first Timer is made
None == 0

\* the Timer objects made so far
made == { t \in 1..MaxTimers : timers[t] # "none" }

\* the Timer that `Timer(self.seconds, self._handle_target)` makes
new_Timer == Cardinality(made) + 1

IdleTimer ==
    /\ pc_caller = "off"
    /\ should_continue = FALSE
    /\ is_running = FALSE
    /\ thread = None
    /\ timers = <<>>
    /\ finished = {}
    /\ calls = 0
    /\ executions = 0
    /\ after_cancel = FALSE

\* __init__, lines 3270-3275
InitTimer ==
    /\ pc_caller = "idle"
    /\ should_continue = FALSE
    /\ is_running = FALSE
    /\ thread = None
    /\ timers = [t \in 1..MaxTimers |-> "none"]
    /\ finished = {}
    /\ calls = 0
    /\ executions = 0
    /\ after_cancel = FALSE

\* threading.Timer.run: the wait is over and the Timer was not cancelled, the
\* function (_handle_target) is about to be called
timer_fire(t) ==
    /\ timers[t] = "pending"
    /\ t \notin finished
    /\ timers' = [timers EXCEPT ![t] = "fired"]
    /\ UNCHANGED <<pc_caller, should_continue, is_running, thread, finished, calls,
                   executions, after_cancel>>

\* threading.Timer.run of a cancelled Timer: the function is not called
timer_cancelled(t) ==
    /\ timers[t] = "pending"
    /\ t \in finished
    /\ timers' = [timers EXCEPT ![t] = "done"]
    /\ UNCHANGED <<pc_caller, should_continue, is_running, thread, finished, calls,
                   executions, after_cancel>>

\* _handle_target, lines 3278-3279: is_running is set and the target begins
handle_target_begin(t) ==
    /\ timers[t] = "fired"
    /\ is_running' = TRUE
    /\ executions' = executions + 1
    /\ timers' = [timers EXCEPT ![t] = "target"]
    /\ UNCHANGED <<pc_caller, should_continue, thread, finished, calls, after_cancel>>

\* _handle_target, lines 3279-3280: the target returns, is_running is reset
handle_target_end(t) ==
    /\ timers[t] = "target"
    /\ is_running' = FALSE
    /\ timers' = [timers EXCEPT ![t] = "restart"]
    /\ UNCHANGED <<pc_caller, should_continue, thread, finished, calls, executions,
                   after_cancel>>

\* _start_timer called by _handle_target, line 3284: the test
start_timer_test(t) ==
    /\ timers[t] = "restart"
    /\ timers' = [timers EXCEPT ![t] = IF should_continue THEN "make" ELSE "done"]
    /\ UNCHANGED <<pc_caller, should_continue, is_running, thread, finished, calls,
                   executions, after_cancel>>

\* _start_timer called by _handle_target, line 3285: a Timer is made and
\* stored in self.thread
start_timer_make(t) ==
    /\ timers[t] = "make"
    /\ new_Timer <= MaxTimers
    /\ thread' = new_Timer
    /\ timers' = [timers EXCEPT ![t] = "start", ![new_Timer] = "made"]
    /\ UNCHANGED <<pc_caller, should_continue, is_running, finished, calls, executions,
                   after_cancel>>

\* self.thread.start(), line 3286: the Timer that self.thread holds now is
\* started; starting a started thread raises RuntimeError
thread_start(ts) ==
    IF ts[thread] = "made" THEN [ts EXCEPT ![thread] = "pending"] ELSE ts

\* _start_timer called by _handle_target, line 3286; the thread ends
start_timer_start(t) ==
    /\ timers[t] = "start"
    /\ timers' = [thread_start(timers) EXCEPT ![t] = "done"]
    /\ UNCHANGED <<pc_caller, should_continue, is_running, thread, finished, calls,
                   executions, after_cancel>>

\* start(), line 3289: _should_continue is read, line 3293 when it is set
start_call ==
    /\ pc_caller = "idle"
    /\ calls < MaxCalls
    /\ calls' = calls + 1
    /\ after_cancel' = FALSE
    /\ pc_caller' = IF should_continue THEN "idle" ELSE "start_running"
    /\ UNCHANGED <<should_continue, is_running, thread, timers, finished, executions>>

\* start(), line 3289: is_running is read, line 3293 when it is set
start_running ==
    /\ pc_caller = "start_running"
    /\ pc_caller' = IF is_running THEN "idle" ELSE "start_set"
    /\ UNCHANGED <<should_continue, is_running, thread, timers, finished, calls,
                   executions, after_cancel>>

\* start(), line 3290, and the test of _start_timer, line 3284
start_set ==
    /\ pc_caller = "start_set"
    /\ should_continue' = TRUE
    /\ pc_caller' = "start_make"
    /\ UNCHANGED <<is_running, thread, timers, finished, calls, executions, after_cancel>>

\* _start_timer called by start(), line 3285
start_make ==
    /\ pc_caller = "start_make"
    /\ new_Timer <= MaxTimers
    /\ thread' = new_Timer
    /\ timers' = [timers EXCEPT ![new_Timer] = "made"]
    /\ pc_caller' = "start_start"
    /\ UNCHANGED <<should_continue, is_running, finished, calls, executions, after_cancel>>

\* _start_timer called by start(), line 3286; start() returns, or raises
\* when the Timer was started by the thread of another Timer
start_start ==
    /\ pc_caller = "start_start"
    /\ timers' = thread_start(timers)
    /\ pc_caller' = IF timers[thread] = "made" THEN "idle" ELSE "raised"
    /\ UNCHANGED <<should_continue, is_running, thread, finished, calls, executions,
                   after_cancel>>

\* cancel(), lines 3296-3297 (3299-3301 when no Timer was ever made)
cancel_call ==
    /\ pc_caller = "idle"
    /\ calls < MaxCalls
    /\ calls' = calls + 1
    /\ IF thread # None
       THEN should_continue' = FALSE /\ pc_caller' = "cancel_thread"
       ELSE UNCHANGED <<should_continue, pc_caller>>
    /\ UNCHANGED <<is_running, thread, timers, finished, executions, after_cancel>>

\* cancel(), line 3298: threading.Timer.cancel sets the `finished` event of
\* the Timer that self.thread holds now; cancel() returns
cancel_thread ==
    /\ pc_caller = "cancel_thread"
    /\ finished' = finished \cup {thread}
    /\ pc_caller' = "idle"
    /\ after_cancel' = TRUE
    /\ executions' = 0
    /\ UNCHANGED <<should_continue, is_running, thread, timers, calls>>

-----------------------------------------------------------------------------
(* Cubotone_servos.py: align_motor *)

\* the readings of GPIO.input(light_gate): 0 with the slot of the synch disk
\* at the light gate
Readings == {0, 1}

\* sensor_check, lines 548-550
sensor_check(reading) == reading = 0

\* motor_off, lines 413-421: <<stepper_enable, calls of motor_off>>
motor_off(is_motors, enable, n) ==
    IF ~is_motors THEN <<enable, n + 1>> ELSE <<"HIGH", n + 1>>

IdleAlign ==
    /\ pc_align = "off"
    /\ motors = FALSE
    /\ cover = "read"
    /\ stepper_enable = "HIGH"
    /\ stepper_ms2 = "LOW"
    /\ alignment_ok = FALSE
    /\ alignment_timeout = FALSE
    /\ reverse_main_align_dir = FALSE
    /\ position = 0
    /\ align_i = 0
    /\ motor_off_calls = 0
    /\ align_ret = "none"

\* a call align_motor(debug, cover) with the driver enabled or not
InitAlign ==
    /\ pc_align = "entry"
    /\ motors \in BOOLEAN
    /\ cover \in {"read", "open", "close"}
    /\ stepper_enable \in {"HIGH", "LOW"}
    /\ stepper_ms2 = "LOW"
    /\ alignment_ok = FALSE
    /\ alignment_timeout = FALSE
    /\ reverse_main_align_dir = FALSE
    /\ position = 0
    /\ align_i = 0
    /\ motor_off_calls = 0
    /\ align_ret = "none"

\* `return` of align_motor with a value
align_return(value) ==
    /\ align_ret' = value
    /\ pc_align' = "returned"

\* lines 591-596 (and 614-619, 641-646, 674-679, 712-717): the alignment
\* takes longer than `timeout`, the function returns alignment_ok
align_timeout_return ==
    /\ alignment_timeout' = TRUE
    /\ alignment_ok' = FALSE
    /\ align_return(FALSE)

\* lines 558-572: motors off, or the slot already at the light gate
align_entry ==
    /\ pc_align = "entry"
    /\ \E reading \in Readings :
         IF ~motors
         THEN /\ align_return(TRUE)
              /\ UNCHANGED <<stepper_enable, alignment_ok>>
         ELSE IF sensor_check(reading)
         THEN /\ stepper_enable' = "LOW"
              /\ alignment_ok' = TRUE
              /\ align_return(TRUE)
         ELSE /\ pc_align' = "while"
              /\ UNCHANGED <<stepper_enable, alignment_ok, align_ret>>
    /\ UNCHANGED <<motors, cover, stepper_ms2, alignment_timeout, reverse_main_align_dir,
                   position, align_i, motor_off_calls>>

\* lines 587-599: the test of the while loop, the timeout, the driver enabled
\* with microsteps
align_while ==
    /\ pc_align = "while"
    /\ IF alignment_ok \/ alignment_timeout
       THEN /\ pc_align' = "final"
            /\ UNCHANGED <<stepper_enable, stepper_ms2, alignment_ok, alignment_timeout,
                           position, align_ret>>
       ELSE \E late_now \in BOOLEAN :
              IF late_now
              THEN /\ align_timeout_return
                   /\ UNCHANGED <<stepper_enable, stepper_ms2, position>>
              ELSE /\ stepper_enable' = "LOW"
                   /\ stepper_ms2' = "HIGH"
                   /\ position' = 0
                   /\ pc_align' = "fast"
                   /\ UNCHANGED <<alignment_ok, alignment_timeout, align_ret>>
    /\ UNCHANGED <<motors, cover, reverse_main_align_dir, align_i, motor_off_calls>>

\* lines 607-612: fast rotation only when the slot is not at the light gate
align_fast ==
    /\ pc_align = "fast"
    /\ \E reading \in Readings :
         pc_align' = IF sensor_check(reading) THEN "precise" ELSE "fast_loop"
    /\ align_i' = 0
    /\ UNCHANGED <<motors, cover, stepper_enable, stepper_ms2, alignment_ok,
                   alignment_timeout, reverse_main_align_dir, position, motor_off_calls,
                   align_ret>>

\* lines 613-636: one pass of the loop of the fast rotation
align_fast_loop ==
    /\ pc_align = "fast_loop"
    /\ \E reading \in Readings, late_now \in BOOLEAN :
         IF reading = 0
         THEN /\ pc_align' = IF reverse_main_align_dir THEN "reverse_loop" ELSE "precise"
              /\ UNCHANGED <<alignment_ok, alignment_timeout, reverse_main_align_dir,
                             position, align_ret>>
         ELSE IF late_now
         THEN /\ align_timeout_return
              /\ UNCHANGED <<reverse_main_align_dir, position>>
         ELSE /\ position' = position + 1
              /\ reverse_main_align_dir' = (position' > stp_rev \/ reverse_main_align_dir)
              /\ pc_align' = IF position' > stp_rev THEN "reverse_loop" ELSE "fast_loop"
              /\ UNCHANGED <<alignment_ok, alignment_timeout, align_ret>>
    /\ UNCHANGED <<motors, cover, stepper_enable, stepper_ms2, align_i, motor_off_calls>>

\* lines 639-651: one pass of the loop of the rotation in the other direction
align_reverse_loop ==
    /\ pc_align = "reverse_loop"
    /\ \E reading \in Readings, late_now \in BOOLEAN :
         IF reading = 0
         THEN /\ pc_align' = "precise"
              /\ UNCHANGED <<alignment_ok, alignment_timeout, align_ret>>
         ELSE IF late_now
         THEN align_timeout_return
         ELSE UNCHANGED <<pc_align, alignment_ok, alignment_timeout, align_ret>>
    /\ UNCHANGED <<motors, cover, stepper_enable, stepper_ms2, reverse_main_align_dir,
                   position, align_i, motor_off_calls>>

\* line 667: the next of the align_repeats attempts of precise alignment
align_precise ==
    /\ pc_align = "precise"
    /\ pc_align' = IF align_i < align_repeats THEN "slot_begin" ELSE "after_for"
    /\ UNCHANGED <<motors, cover, stepper_enable, stepper_ms2, alignment_ok,
                   alignment_timeout, reverse_main_align_dir, position, align_i,
                   motor_off_calls, align_ret>>

\* lines 673-684: one pass of the loop that looks for the begin of the slot
align_slot_begin ==
    /\ pc_align = "slot_begin"
    /\ \E reading \in Readings, late_now \in BOOLEAN :
         IF reading # 0
         THEN /\ pc_align' = "slot_end"
              /\ UNCHANGED <<alignment_ok, alignment_timeout, align_ret>>
         ELSE IF late_now
         THEN align_timeout_return
         ELSE UNCHANGED <<pc_align, alignment_ok, alignment_timeout, align_ret>>
    /\ UNCHANGED <<motors, cover, stepper_enable, stepper_ms2, reverse_main_align_dir,
                   position, align_i, motor_off_calls>>

\* lines 704-722: one pass of the loop that looks for the end of the slot
align_slot_end ==
    /\ pc_align = "slot_end"
    /\ \E reading \in Readings, late_now \in BOOLEAN :
         IF reading # 0
         THEN /\ pc_align' = "positioning"
              /\ UNCHANGED <<alignment_ok, alignment_timeout, align_ret>>
         ELSE IF late_now
         THEN align_timeout_return
         ELSE UNCHANGED <<pc_align, alignment_ok, alignment_timeout, align_ret>>
    /\ UNCHANGED <<motors, cover, stepper_enable, stepper_ms2, reverse_main_align_dir,
                   position, align_i, motor_off_calls>>

\* lines 742-756: half of the slot back, the sensor read with the motor stopped
align_positioning ==
    /\ pc_align = "positioning"
    /\ \E reading \in Readings :
         IF sensor_check(reading)
         THEN /\ alignment_ok' = TRUE
              /\ pc_align' = "after_for"
              /\ UNCHANGED align_i
         ELSE /\ align_i' = align_i + 1
              /\ pc_align' = "precise"
              /\ UNCHANGED alignment_ok
    /\ UNCHANGED <<motors, cover, stepper_enable, stepper_ms2, alignment_timeout,
                   reverse_main_align_dir, position, motor_off_calls, align_ret>>

\* lines 759-765: the sensor read again, microsteps off, back to the while
align_after_for ==
    /\ pc_align = "after_for"
    /\ \E reading \in Readings :
         alignment_ok' = IF sensor_check(reading) # TRUE THEN FALSE ELSE alignment_ok
    /\ stepper_ms2' = "LOW"
    /\ pc_align' = "while"
    /\ UNCHANGED <<motors, cover, stepper_enable, alignment_timeout,
                   reverse_main_align_dir, position, align_i, motor_off_calls, align_ret>>

\* lines 781-786: after the while loop
align_final ==
    /\ pc_align = "final"
    /\ IF alignment_timeout \/ ~alignment_ok
       THEN /\ stepper_enable' = motor_off(motors, stepper_enable, motor_off_calls)[1]
            /\ motor_off_calls' = motor_off(motors, stepper_enable, motor_off_calls)[2]
            /\ align_return(FALSE)
       ELSE /\ align_return(TRUE)
            /\ UNCHANGED <<stepper_enable, motor_off_calls>>
    /\ UNCHANGED <<motors, cover, stepper_ms2, alignment_ok, alignment_timeout,
                   reverse_main_align_dir, position, align_i>>

-----------------------------------------------------------------------------
(* Cubotone.py: the call of the solver *)

\* answers of the solver: a rejected cube definition, a cube already solved,
\* a solution of one move
ErrorReply == ErrorString \o <<"b", "a", "d", " ", "c", "u", "b", "e">>

SolverReplies ==
    { ErrorReply,
      <<"(", "0", "f", ")">>,
      <<"U", "1", " ", "(", "1", "f", ")">> }

\* the solver accepts a definition string of 54 letters, nine of each face
WellFormed(str) ==
    /\ Len(str) = 54
    /\ \A x \in Faces : Cardinality({i \in 1..54 : str[i] = x}) = 9

\* sv.solve: what the solver may answer on a cube definition string
sv_solve(str) == IF WellFormed(str) THEN SolverReplies ELSE {ErrorReply}

\* cube_solution, given the solver's answer s: <<solution, solution_Text>>
cube_solution(s) ==
    LET sol == Slice(s, 0, Find(s, "("))
        text == Slice(s, Find(s, "(") + 1, Find(s, ")") - 1)
                  \o <<" ", "m", "o", "v", "e", "s", " ", " ">> \o Slice(s, 0, Find(s, "("))
    IN  << sol, IF Slice(sol, 0, 5) = Str_Error THEN Str_Error ELSE text >>
-----------------------------------------------------------------------------
(* Cubotone.py: cube movements of the scan phase *)

\* servo.spin(k): the holder turns the cube, the face that comes to the
\* front is the one the spin table reaches with k quarter turns
cube_after_spin(o, k) ==
    <<o[1], CHOOSE t \in Faces :
                spin_func(c_orient_func(o[1], o[2]), c_n_bottom_func(o[1], t)) = k>>

\* one flip: the front face goes to the bottom, the new front is the one
\* the flip sequences give
cube_after_flip(o) == <<o[2], flips_func(o[1], o[2], c_orient_func(o[1], o[2]), flip_seq)[2]>>

RECURSIVE cube_after_flips(_, _)
cube_after_flips(o, n) == IF n <= 0 THEN o ELSE cube_after_flips(cube_after_flip(o), n - 1)

\* the face on top, the one the PiCamera reads: two places after the bottom
\* face on the flip sequence of the orientation
face_up(o) ==
    LET seq == c_flip_seq_of(c_orient_func(o[1], o[2]), flip_seq)
        i == CHOOSE k \in 1..(Len(seq) - 1) :
                /\ seq[k] = o[1] /\ seq[k + 1] = o[2]
                /\ \A j \in 1..(k - 1) : ~(seq[j] = o[1] /\ seq[j + 1] = o[2])
    IN  seq[i + 2]

\* robot_next_side with the spin of side 4 left out
scan_movement_nospin(sd) ==
    IF sd \in 0..3 THEN <<0, 1>>
    ELSE IF sd = 4 THEN <<0, 1>>
    ELSE IF sd = 5 THEN <<0, 2>>
    ELSE <<0, 0>>

\* robot_next_side: <<spins, flips>> commanded after reading side sd
scan_movement(sd) ==
    IF sd \in 0..3 THEN <<0, 1>>
    ELSE IF sd = 4 THEN <<1, 1>>
    ELSE IF sd = 5 THEN <<0, 2>>
    ELSE <<0, 0>>

\* robot_next_side as its docstring describes it: after the sixth face the
\* cube is put back to its initial position
robot_next_side_home(o, sd, stop, aligned) ==
    LET mv == scan_movement(sd)
        spun == IF mv[1] # 0 /\ ~stop THEN cube_after_spin(o, mv[1]) ELSE o
    IN  IF sd = 6 /\ ~stop THEN <<"D", "F">>
        ELSE IF aligned /\ ~stop THEN cube_after_flips(spun, mv[2]) ELSE spun

\* robot_next_side: the cube after the call; a flip is made only when the
\* holder is aligned and no stop is requested, the spin of side 4 only when
\* no stop is requested
robot_next_side(o, sd, stop, aligned) ==
    LET mv == scan_movement(sd)
        spun == IF mv[1] # 0 /\ ~stop THEN cube_after_spin(o, mv[1]) ELSE o
    IN  IF aligned /\ ~stop THEN cube_after_flips(spun, mv[2]) ELSE spun
-----------------------------------------------------------------------------
(* Cubotone.py: the scan and solve cycle on the robot (cubeAF, __main__) *)

IdleCycle ==
    /\ pc_main = "idle"
    /\ side = 0
    /\ calib_i = 0
    /\ cycle = 0
    /\ lighting = "normal"
    /\ placement = [U |-> "white", R |-> "red", F |-> "green",
                    D |-> "yellow", L |-> "orange", B |-> "blue"]
    /\ robot_running = FALSE
    /\ robot_stop = FALSE
    /\ timeout = FALSE
    /\ quitting = FALSE
    /\ BGR_mean = <<>>
    /\ URFDLB_facelets_BGR_mean = <<>>
    /\ cube_orient = <<"D", "F">>
    /\ shown = <<>>
    /\ cube_status = <<>>
    /\ cube_status_string = <<>>
    /\ af_solution = <<>>
    /\ af_solution_Text = <<>>
    /\ detect_winner = "unset"
    /\ HSV_analysis = TRUE
    /\ solver_calls = <<>>
    /\ time_over = FALSE
    /\ frame_no = 0

\* start_up (lines 3951-4055) and the settings of __main__ are done, the
\* robot waits for the NEW CYCLE button
InitCycle ==
    /\ pc_main = "wait"
    /\ side = 0
    /\ calib_i = 0
    /\ cycle = 0
    /\ lighting = "normal"
    /\ placement = [U |-> "white", R |-> "red", F |-> "green",
                    D |-> "yellow", L |-> "orange", B |-> "blue"]
    /\ robot_running = FALSE
    /\ robot_stop = FALSE
    /\ timeout = FALSE
    /\ quitting = FALSE
    /\ BGR_mean = <<>>
    /\ URFDLB_facelets_BGR_mean = <<>>
    /\ cube_orient = <<"D", "F">>
    /\ shown = <<>>
    /\ cube_status = <<>>
    /\ cube_status_string = <<>>
    /\ af_solution = <<>>
    /\ af_solution_Text = <<>>
    /\ detect_winner = "unset"
    /\ HSV_analysis = TRUE
    /\ solver_calls = <<>>
    /\ time_over = FALSE
    /\ frame_no = 0

\* quit_func on the robot: the flags are set and the script exits
quit_func ==
    /\ quitting' = TRUE
    /\ robot_stop' = TRUE
    /\ robot_running' = FALSE
    /\ pc_main' = "exited"

\* __main__, lines 4502-4526: a short press of the NEW CYCLE button; a cube
\* is on the holder, and cubeAF is called
new_cycle_button ==
    /\ pc_main = "wait"
    /\ cycle < MaxCycles
    /\ cycle' = cycle + 1
    /\ lighting' \in Lightings
    /\ placement' \in Placements
    /\ cube_orient' = <<"D", "F">>
    /\ side' = IF side = 6 THEN 0 ELSE side
    /\ robot_running' = TRUE
    /\ robot_stop' = FALSE
    /\ timeout' = FALSE
    /\ shown' = <<>>
    /\ cube_status' = <<>>
    /\ cube_status_string' = <<>>
    /\ af_solution' = <<>>
    /\ af_solution_Text' = <<>>
    /\ detect_winner' = "unset"
    /\ HSV_analysis' = TRUE
    /\ solver_calls' = <<>>
    /\ pc_main' = "cubeAF"
    /\ UNCHANGED <<calib_i, quitting, BGR_mean, URFDLB_facelets_BGR_mean>>
    /\ time_over' = FALSE
    /\ frame_no' = 0

\* stop_cycle: the button kept pressed while the robot is running
stop_cycle ==
    /\ pc_main \notin {"wait", "exited", "raised", "idle"}
    /\ robot_running
    /\ robot_stop' = TRUE
    /\ robot_running' = FALSE
    /\ quitting' = TRUE
    /\ UNCHANGED <<pc_main, side, calib_i, cycle, lighting, placement, timeout, BGR_mean,
                   URFDLB_facelets_BGR_mean, cube_orient, shown, cube_status,
                   cube_status_string, af_solution, af_solution_Text, detect_winner,
                   HSV_analysis, solver_calls>>
    /\ UNCHANGED <<time_over, frame_no>>

\* cubeAF, lines 4079-4115: motor alignment, camera warm-up, then the
\* calibration flips unless a stop is requested
cubeAF_start ==
    /\ pc_main = "cubeAF"
    /\ \E aligned \in BOOLEAN :
          IF ~aligned \/ robot_stop
          THEN quit_func /\ UNCHANGED calib_i
          ELSE /\ pc_main' = "calib"
               /\ calib_i' = 0
               /\ UNCHANGED <<quitting, robot_stop, robot_running>>
    /\ UNCHANGED <<side, cycle, lighting, placement, timeout, BGR_mean,
                   URFDLB_facelets_BGR_mean, cube_orient, shown, cube_status,
                   cube_status_string, af_solution, af_solution_Text, detect_winner,
                   HSV_analysis, solver_calls>>
    /\ UNCHANGED <<time_over, frame_no>>

\* robot_consistent_camera_images, lines 468-485: one of the four flips made
\* while the exposure of the first four faces is measured
calibration_flip ==
    /\ pc_main = "calib"
    /\ \E aligned \in BOOLEAN :
          /\ cube_orient' = robot_next_side(cube_orient, calib_i, robot_stop, aligned)
          /\ IF ~aligned \/ robot_stop
             THEN quit_func /\ UNCHANGED calib_i
             ELSE /\ calib_i' = IF calib_i < 3 THEN calib_i + 1 ELSE 0
                  /\ pc_main' = IF calib_i < 3 THEN "calib" ELSE "read"
                  /\ UNCHANGED <<quitting, robot_stop, robot_running>>
    /\ UNCHANGED <<side, cycle, lighting, placement, timeout, BGR_mean,
                   URFDLB_facelets_BGR_mean, shown, cube_status,
                   cube_status_string, af_solution, af_solution_Text, detect_winner,
                   HSV_analysis, solver_calls>>
    /\ UNCHANGED <<time_over, frame_no>>

\* cubeAF, lines 4120-4187: a frame with the nine facelets of the face on
\* top; their colours are measured and the URFDLB list is rebuilt
read_face ==
    /\ pc_main = "read"
    /\ ~quitting /\ ~timeout /\ ~robot_stop
    /\ LET sd == IF side = 0 THEN 1 ELSE side
           face == face_up(cube_orient)
           facelets == robot_facelets_rotation(camera_facelets(sd), sd)
           bm == read_color(facelets, BGR_mean, face, lighting, placement, cycle)
       IN  /\ side' = sd
           /\ BGR_mean' = bm
           /\ URFDLB_facelets_BGR_mean' = URFDLB_facelets_order(bm)
           /\ shown' = Append(shown, face)
    /\ pc_main' = "next_side"
    /\ UNCHANGED <<calib_i, cycle, lighting, placement, robot_running, robot_stop, timeout,
                   quitting, cube_orient, cube_status, cube_status_string, af_solution,
                   af_solution_Text, detect_winner, HSV_analysis, solver_calls>>
    /\ ~time_over
    /\ frame_no' = 0
    /\ UNCHANGED time_over

\* cubeAF, lines 4143-4145 and 4339-4340, __main__ lines 4532-4535: the
\* detection time is over, robot_timeout_func is called and the cycle ends
read_timeout ==
    /\ pc_main = "read"
    /\ ~quitting /\ ~timeout /\ ~robot_stop
    /\ timeout' = TRUE
    /\ side' = 6
    /\ robot_running' = FALSE
    /\ pc_main' = "wait"
    /\ UNCHANGED <<calib_i, cycle, lighting, placement, robot_stop, quitting, BGR_mean,
                   URFDLB_facelets_BGR_mean, cube_orient, shown, cube_status,
                   cube_status_string, af_solution, af_solution_Text, detect_winner,
                   HSV_analysis, solver_calls>>
    /\ time_over
    /\ frame_no' = 0
    /\ UNCHANGED time_over

\* cubeAF, lines 4120-4137 and 4338-4340: a frame in which read_facelets
\* finds no contour (hierarchy is None), or, before the detection time is
\* over, contours that are not the nine facelets of a face: the loop goes on
\* with the next frame
read_no_face ==
    /\ pc_main = "read"
    /\ ~quitting /\ ~timeout /\ ~robot_stop
    /\ \E with_contours \in BOOLEAN : with_contours => ~time_over
    /\ frame_no' = 1 - frame_no
    /\ UNCHANGED <<pc_main, side, calib_i, cycle, lighting, placement, robot_running,
                   robot_stop, timeout, time_over, quitting, BGR_mean,
                   URFDLB_facelets_BGR_mean, cube_orient, shown, cube_status,
                   cube_status_string, af_solution, af_solution_Text, detect_winner,
                   HSV_analysis, solver_calls>>

\* the clock: more than detection_timeout seconds (line 4043) have passed
\* since camera_ready_time (line 4104), as the reading loop finds it
detection_time_over ==
    /\ pc_main = "read"
    /\ ~time_over
    /\ time_over' = TRUE
    /\ UNCHANGED <<pc_main, side, calib_i, cycle, lighting, placement, robot_running,
                   robot_stop, timeout, frame_no, quitting, BGR_mean,
                   URFDLB_facelets_BGR_mean, cube_orient, shown, cube_status,
                   cube_status_string, af_solution, af_solution_Text, detect_winner,
                   HSV_analysis, solver_calls>>

\* cubeAF, lines 4118 and 4136-4137, __main__ lines 4528-4530: a stop was
\* requested, the reading loop is left and the script quits
read_stopped ==
    /\ pc_main = "read"
    /\ quitting \/ robot_stop
    /\ quit_func
    /\ UNCHANGED <<side, calib_i, cycle, lighting, placement, timeout, BGR_mean,
                   URFDLB_facelets_BGR_mean, cube_orient, shown, cube_status,
                   cube_status_string, af_solution, af_solution_Text, detect_winner,
                   HSV_analysis, solver_calls>>
    /\ UNCHANGED <<time_over, frame_no>>

\* the calls of servo.flip that can report a missed alignment
flip_commanded(sd, stop) == sd \in 0..3 \/ sd = 5 \/ (sd = 4 /\ ~stop)

\* cubeAF, lines 4206-4211: the cube is moved to show the next face
next_side ==
    /\ pc_main = "next_side"
    /\ \E aligned \in (IF flip_commanded(side, robot_stop) THEN BOOLEAN ELSE {TRUE}) :
          /\ cube_orient' = robot_next_side(cube_orient, side, robot_stop, aligned)
          /\ IF ~aligned
             THEN quit_func /\ UNCHANGED side
             ELSE IF side < 6
             THEN /\ side' = side + 1
                  /\ IF robot_stop
                     THEN quit_func
                     ELSE pc_main' = "read" /\ UNCHANGED <<quitting, robot_stop, robot_running>>
             ELSE /\ pc_main' = "classify"
                  /\ UNCHANGED <<side, quitting, robot_stop, robot_running>>
    /\ UNCHANGED <<calib_i, cycle, lighting, placement, timeout, BGR_mean,
                   URFDLB_facelets_BGR_mean, shown, cube_status, cube_status_string,
                   af_solution, af_solution_Text, detect_winner, HSV_analysis, solver_calls>>
    /\ UNCHANGED <<time_over, frame_no>>

\* the test of line 4229 taken as always true
needs_fallback_always(text) == TRUE

\* cubeAF, line 4229: the HSV interpretation is tried when the solver has
\* returned an error on the string of the BGR interpretation
needs_fallback(text) == text = Str_Error

\* cubeAF, lines 4221-4229: colours by BGR distance, first call of the solver
classify_BGR ==
    /\ pc_main = "classify"
    /\ \E status \in {cube_colors_interpreted(URFDLB_facelets_BGR_mean)},
          HSV_detected \in {HSV_detected_of(URFDLB_facelets_BGR_mean)} :
          \E order \in {retrieve_cube_color_order(
                            List([i \in 1..54 |-> HSV_detected[i][3] - HSV_detected[i][2]]),
                            List([i \in 1..54 |-> HSV_detected[i][1]]))},
             str \in {cube_string(status)} :
             \E s \in sv_solve(str) :
                \E r \in {cube_solution(s)} :
                    /\ cube_status' = status
                    /\ HSV_analysis' = order[2]
                    /\ cube_status_string' = str
                    /\ af_solution' = r[1]
                    /\ af_solution_Text' = r[2]
                    /\ detect_winner' = "BGR"
                    /\ solver_calls' = Append(solver_calls,
                           [path |-> "BGR", str |-> str, text |-> r[2], cyc |-> cycle])
                    /\ pc_main' = IF needs_fallback(r[2]) THEN "fallback" ELSE "solve"
    /\ UNCHANGED <<side, calib_i, cycle, lighting, placement, robot_running, robot_stop,
                   timeout, quitting, BGR_mean, URFDLB_facelets_BGR_mean, cube_orient, shown>>
    /\ UNCHANGED <<time_over, frame_no>>

\* cubeAF, lines 4229-4242: colours by HSV, second call of the solver
classify_HSV ==
    /\ pc_main = "fallback"
    /\ \E res \in {cube_colors_interpreted_HSV(HSV_detected_of(URFDLB_facelets_BGR_mean))} :
          \E str \in {cube_string(res[1])} :
             \E s \in sv_solve(str) :
                \E r \in {cube_solution(s)} :
                    /\ cube_status' = res[1]
                    /\ HSV_analysis' = res[4]
                    /\ cube_status_string' = str
                    /\ af_solution' = r[1]
                    /\ af_solution_Text' = r[2]
                    /\ detect_winner' = IF r[2] = Str_Error THEN "Error" ELSE "HSV"
                    /\ solver_calls' = Append(solver_calls,
                           [path |-> "HSV", str |-> str, text |-> r[2], cyc |-> cycle])
                    /\ pc_main' = "solve"
    /\ UNCHANGED <<side, calib_i, cycle, lighting, placement, robot_running, robot_stop,
                   timeout, quitting, BGR_mean, URFDLB_facelets_BGR_mean, cube_orient, shown>>
    /\ UNCHANGED <<time_over, frame_no>>

\* the cube once robot_move_cube has applied a solution to it
cube_solved == <<"solved", "solved">>

\* robot_solve_cube, lines 3447-3505: the moves are applied unless a stop
\* is requested; with a stop requested the locals of line 3473-3474 are
\* unbound at line 3483
robot_solve_cube ==
    /\ pc_main = "solve"
    /\ IF robot_stop
       THEN /\ pc_main' = "raised"
            /\ UNCHANGED <<cube_orient, robot_running>>
       ELSE /\ pc_main' = "solved"
            /\ cube_orient' = IF Len(af_solution) > 0 /\ af_solution_Text # Str_Error
                              THEN cube_solved ELSE cube_orient
            /\ UNCHANGED robot_running
    /\ UNCHANGED <<side, calib_i, cycle, lighting, placement, robot_stop, timeout, quitting,
                   BGR_mean, URFDLB_facelets_BGR_mean, shown, cube_status,
                   cube_status_string, af_solution, af_solution_Text, detect_winner,
                   HSV_analysis, solver_calls>>
    /\ UNCHANGED <<time_over, frame_no>>

\* cubeAF, lines 4278-4287, __main__ lines 4528-4535: the cycle is logged and
\* cubeAF returns; the script quits on a stop, else it waits for a new cycle
cubeAF_return ==
    /\ pc_main = "solved"
    /\ IF quitting
       THEN quit_func /\ UNCHANGED side
       ELSE /\ side' = 6
            /\ robot_running' = FALSE
            /\ pc_main' = "wait"
            /\ UNCHANGED <<quitting, robot_stop>>
    /\ UNCHANGED <<calib_i, cycle, lighting, placement, timeout, BGR_mean,
                   URFDLB_facelets_BGR_mean, cube_orient, shown, cube_status,
                   cube_status_string, af_solution, af_solution_Text, detect_winner,
                   HSV_analysis, solver_calls>>
    /\ UNCHANGED <<time_over, frame_no>>

-----------------------------------------------------------------------------
(* Specifications *)

NextMoves ==
    \/ (robot_moves_enter /\ UNCHANGED <<vars_fn, vars_cycle, vars_interp, vars_dist, vars_mc, vars_timer, vars_align>>)
    \/ (robot_moves_block /\ UNCHANGED <<vars_fn, vars_cycle, vars_interp, vars_dist, vars_mc, vars_timer, vars_align>>)
    \/ (robot_moves_return /\ UNCHANGED <<vars_fn, vars_cycle, vars_interp, vars_dist, vars_mc, vars_timer, vars_align>>)

InitSpecMoves ==
    /\ InitMoves
    /\ IdleFn
    /\ IdleCycle
    /\ IdleInterp
    /\ IdleDist
    /\ IdleMoveCube
    /\ IdleTimer
    /\ IdleAlign

SpecMoves == InitSpecMoves /\ [][NextMoves]_vars

NextFn == orient_lookup /\ UNCHANGED <<vars_moves, vars_cycle, vars_interp, vars_dist, vars_mc, vars_timer, vars_align>>

InitSpecFn ==
    /\ InitFn
    /\ IdleMoves
    /\ IdleCycle
    /\ IdleInterp
    /\ IdleDist
    /\ IdleMoveCube
    /\ IdleTimer
    /\ IdleAlign

SpecFn == InitSpecFn /\ [][NextFn]_vars

NextCycle ==
    \/ (new_cycle_button /\ UNCHANGED <<vars_moves, vars_fn, vars_interp, vars_dist, vars_mc, vars_timer, vars_align>>)
    \/ (stop_cycle /\ UNCHANGED <<vars_moves, vars_fn, vars_interp, vars_dist, vars_mc, vars_timer, vars_align>>)
    \/ (cubeAF_start /\ UNCHANGED <<vars_moves, vars_fn, vars_interp, vars_dist, vars_mc, vars_timer, vars_align>>)
    \/ (calibration_flip /\ UNCHANGED <<vars_moves, vars_fn, vars_interp, vars_dist, vars_mc, vars_timer, vars_align>>)
    \/ (read_face /\ UNCHANGED <<vars_moves, vars_fn, vars_interp, vars_dist, vars_mc, vars_timer, vars_align>>)
    \/ (read_timeout /\ UNCHANGED <<vars_moves, vars_fn, vars_interp, vars_dist, vars_mc, vars_timer, vars_align>>)
    \/ (read_no_face /\ UNCHANGED <<vars_moves, vars_fn, vars_interp, vars_dist, vars_mc, vars_timer, vars_align>>)
    \/ (detection_time_over /\ UNCHANGED <<vars_moves, vars_fn, vars_interp, vars_dist, vars_mc, vars_timer, vars_align>>)
    \/ (read_stopped /\ UNCHANGED <<vars_moves, vars_fn, vars_interp, vars_dist, vars_mc, vars_timer, vars_align>>)
    \/ (next_side /\ UNCHANGED <<vars_moves, vars_fn, vars_interp, vars_dist, vars_mc, vars_timer, vars_align>>)
    \/ (classify_BGR /\ UNCHANGED <<vars_moves, vars_fn, vars_interp, vars_dist, vars_mc, vars_timer, vars_align>>)
    \/ (classify_HSV /\ UNCHANGED <<vars_moves, vars_fn, vars_interp, vars_dist, vars_mc, vars_timer, vars_align>>)
    \/ (robot_solve_cube /\ UNCHANGED <<vars_moves, vars_fn, vars_interp, vars_dist, vars_mc, vars_timer, vars_align>>)
    \/ (cubeAF_return /\ UNCHANGED <<vars_moves, vars_fn, vars_interp, vars_dist, vars_mc, vars_timer, vars_align>>)

InitSpecCycle ==
    /\ InitCycle
    /\ IdleMoves
    /\ IdleFn
    /\ IdleInterp
    /\ IdleDist
    /\ IdleMoveCube
    /\ IdleTimer
    /\ IdleAlign

SpecCycle == InitSpecCycle /\ [][NextCycle]_vars

\* the passes of the reading loop of cubeAF (`while not quitting`, line 4118)
\* that do not read a face
reading_loop == read_timeout \/ read_no_face \/ read_stopped

\* the main thread goes on: the reading loop takes its next pass as long as
\* it has one to take
SpecCycleFair ==
    SpecCycle /\ WF_vars(reading_loop /\ UNCHANGED <<vars_moves, vars_fn, vars_interp,
                                                     vars_dist, vars_mc, vars_timer,
                                                     vars_align>>)

NextInterp ==
    \/ (interpret_BGR /\ UNCHANGED <<vars_moves, vars_fn, vars_cycle, vars_dist, vars_mc, vars_timer, vars_align>>)
    \/ (interpret_HSV /\ UNCHANGED <<vars_moves, vars_fn, vars_cycle, vars_dist, vars_mc, vars_timer, vars_align>>)

InitSpecInterp ==
    /\ InitInterp
    /\ IdleMoves
    /\ IdleFn
    /\ IdleCycle
    /\ IdleDist
    /\ IdleMoveCube
    /\ IdleTimer
    /\ IdleAlign

SpecInterp == InitSpecInterp /\ [][NextInterp]_vars

NextDist ==
    \/ (distance_12 /\ UNCHANGED <<vars_moves, vars_fn, vars_cycle, vars_interp, vars_mc, vars_timer, vars_align>>)
    \/ (distance_21 /\ UNCHANGED <<vars_moves, vars_fn, vars_cycle, vars_interp, vars_mc, vars_timer, vars_align>>)

InitSpecDist ==
    /\ InitDist
    /\ IdleMoves
    /\ IdleFn
    /\ IdleCycle
    /\ IdleInterp
    /\ IdleMoveCube
    /\ IdleTimer
    /\ IdleAlign

SpecDist == InitSpecDist /\ [][NextDist]_vars

NextMoveCube ==
    \/ (mc_loop /\ UNCHANGED <<vars_moves, vars_fn, vars_cycle, vars_interp, vars_dist, vars_timer, vars_align>>)
    \/ (mc_spin_test /\ UNCHANGED <<vars_moves, vars_fn, vars_cycle, vars_interp, vars_dist, vars_timer, vars_align>>)
    \/ (mc_spin_call /\ UNCHANGED <<vars_moves, vars_fn, vars_cycle, vars_interp, vars_dist, vars_timer, vars_align>>)
    \/ (mc_flips_test /\ UNCHANGED <<vars_moves, vars_fn, vars_cycle, vars_interp, vars_dist, vars_timer, vars_align>>)
    \/ (mc_flip_call /\ UNCHANGED <<vars_moves, vars_fn, vars_cycle, vars_interp, vars_dist, vars_timer, vars_align>>)
    \/ (mc_rotate_test /\ UNCHANGED <<vars_moves, vars_fn, vars_cycle, vars_interp, vars_dist, vars_timer, vars_align>>)
    \/ (mc_rotate_call /\ UNCHANGED <<vars_moves, vars_fn, vars_cycle, vars_interp, vars_dist, vars_timer, vars_align>>)
    \/ (mc_aligned_test /\ UNCHANGED <<vars_moves, vars_fn, vars_cycle, vars_interp, vars_dist, vars_timer, vars_align>>)
    \/ (mc_stop_cycle /\ UNCHANGED <<vars_moves, vars_fn, vars_cycle, vars_interp, vars_dist, vars_timer, vars_align>>)

InitSpecMoveCube ==
    /\ InitMoveCube
    /\ IdleMoves
    /\ IdleFn
    /\ IdleCycle
    /\ IdleInterp
    /\ IdleDist
    /\ IdleTimer
    /\ IdleAlign

SpecMoveCube == InitSpecMoveCube /\ [][NextMoveCube]_vars

NextTimer ==
    \/ ((\E t \in 1..MaxTimers : timer_fire(t)) /\ UNCHANGED <<vars_moves, vars_fn, vars_cycle, vars_interp, vars_dist, vars_mc, vars_align>>)
    \/ ((\E t \in 1..MaxTimers : timer_cancelled(t)) /\ UNCHANGED <<vars_moves, vars_fn, vars_cycle, vars_interp, vars_dist, vars_mc, vars_align>>)
    \/ ((\E t \in 1..MaxTimers : handle_target_begin(t)) /\ UNCHANGED <<vars_moves, vars_fn, vars_cycle, vars_interp, vars_dist, vars_mc, vars_align>>)
    \/ ((\E t \in 1..MaxTimers : handle_target_end(t)) /\ UNCHANGED <<vars_moves, vars_fn, vars_cycle, vars_interp, vars_dist, vars_mc, vars_align>>)
    \/ ((\E t \in 1..MaxTimers : start_timer_test(t)) /\ UNCHANGED <<vars_moves, vars_fn, vars_cycle, vars_interp, vars_dist, vars_mc, vars_align>>)
    \/ ((\E t \in 1..MaxTimers : start_timer_make(t)) /\ UNCHANGED <<vars_moves, vars_fn, vars_cycle, vars_interp, vars_dist, vars_mc, vars_align>>)
    \/ ((\E t \in 1..MaxTimers : start_timer_start(t)) /\ UNCHANGED <<vars_moves, vars_fn, vars_cycle, vars_interp, vars_dist, vars_mc, vars_align>>)
    \/ (start_call /\ UNCHANGED <<vars_moves, vars_fn, vars_cycle, vars_interp, vars_dist, vars_mc, vars_align>>)
    \/ (start_running /\ UNCHANGED <<vars_moves, vars_fn, vars_cycle, vars_interp, vars_dist, vars_mc, vars_align>>)
    \/ (start_set /\ UNCHANGED <<vars_moves, vars_fn, vars_cycle, vars_interp, vars_dist, vars_mc, vars_align>>)
    \/ (start_make /\ UNCHANGED <<vars_moves, vars_fn, vars_cycle, vars_interp, vars_dist, vars_mc, vars_align>>)
    \/ (start_start /\ UNCHANGED <<vars_moves, vars_fn, vars_cycle, vars_interp, vars_dist, vars_mc, vars_align>>)
    \/ (cancel_call /\ UNCHANGED <<vars_moves, vars_fn, vars_cycle, vars_interp, vars_dist, vars_mc, vars_align>>)
    \/ (cancel_thread /\ UNCHANGED <<vars_moves, vars_fn, vars_cycle, vars_interp, vars_dist, vars_mc, vars_align>>)

InitSpecTimer ==
    /\ InitTimer
    /\ IdleMoves
    /\ IdleFn
    /\ IdleCycle
    /\ IdleInterp
    /\ IdleDist
    /\ IdleMoveCube
    /\ IdleAlign

SpecTimer == InitSpecTimer /\ [][NextTimer]_vars

NextAlign ==
    \/ (align_entry /\ UNCHANGED <<vars_moves, vars_fn, vars_cycle, vars_interp, vars_dist, vars_mc, vars_timer>>)
    \/ (align_while /\ UNCHANGED <<vars_moves, vars_fn, vars_cycle, vars_interp, vars_dist, vars_mc, vars_timer>>)
    \/ (align_fast /\ UNCHANGED <<vars_moves, vars_fn, vars_cycle, vars_interp, vars_dist, vars_mc, vars_timer>>)
    \/ (align_fast_loop /\ UNCHANGED <<vars_moves, vars_fn, vars_cycle, vars_interp, vars_dist, vars_mc, vars_timer>>)
    \/ (align_reverse_loop /\ UNCHANGED <<vars_moves, vars_fn, vars_cycle, vars_interp, vars_dist, vars_mc, vars_timer>>)
    \/ (align_precise /\ UNCHANGED <<vars_moves, vars_fn, vars_cycle, vars_interp, vars_dist, vars_mc, vars_timer>>)
    \/ (align_slot_begin /\ UNCHANGED <<vars_moves, vars_fn, vars_cycle, vars_interp, vars_dist, vars_mc, vars_timer>>)
    \/ (align_slot_end /\ UNCHANGED <<vars_moves, vars_fn, vars_cycle, vars_interp, vars_dist, vars_mc, vars_timer>>)
    \/ (align_positioning /\ UNCHANGED <<vars_moves, vars_fn, vars_cycle, vars_interp, vars_dist, vars_mc, vars_timer>>)
    \/ (align_after_for /\ UNCHANGED <<vars_moves, vars_fn, vars_cycle, vars_interp, vars_dist, vars_mc, vars_timer>>)
    \/ (align_final /\ UNCHANGED <<vars_moves, vars_fn, vars_cycle, vars_interp, vars_dist, vars_mc, vars_timer>>)

InitSpecAlign ==
    /\ InitAlign
    /\ IdleMoves
    /\ IdleFn
    /\ IdleCycle
    /\ IdleInterp
    /\ IdleDist
    /\ IdleMoveCube
    /\ IdleTimer

SpecAlign == InitSpecAlign /\ [][NextAlign]_vars

-----------------------------------------------------------------------------
(* Claims on the move translator *)

\* the pair robot_moves tracks: set from c_bottom_func and c_front_func at the
\* first block, from the previous block afterwards
Tracked ==
    IF move = 0
    THEN <<c_bottom_func(solution, 0), c_front_func(solution, 0)>>
    ELSE <<c_bottom, c_front>>

\* C1: after every emitted move the rigid-cube replay of the spin and flip
\* fields of the moves emitted so far, started at down=R front=B, equals the
\* (down, front) pair robot_moves tracks, and its down face is the face letter
\* of the token just translated.
C1_ReplayMatchesTracked ==
    (pc_moves \in {"loop", "done"} /\ move >= 1) =>
        /\ ref_orient = <<c_bottom, c_front>>
        /\ ref_orient[1] = solution_in[3 * (move - 1) + 1]

C1_Witness ==
    /\ pc_moves = "done"
    /\ move = 2
    /\ move_flips(robot[1]) = 2
    /\ move_spins(robot[2]) = 0 - 1
    /\ move_flips(robot[2]) = 1
    /\ ref_orient = <<c_bottom, c_front>>

\* C2: before the first token and after each token the tracked (down, front)
\* pair is one of the 24 valid orientations.
C2_TrackedValid ==
    (pc_moves \in {"loop", "done"} /\ solution_Text # "Error") =>
        Tracked \in ValidOrients

C2_Witness ==
    /\ pc_moves = "loop"
    /\ move = 2
    /\ Tracked = <<"U", "B">>

\* C7: the spin table has 72 rows, three for each of the 24 valid orientations
\* (one for each face adjacent to the down face other than the front, with the
\* spins 1, -1 and 2); spin_func returns the row's spin and 0 exactly when the
\* target is the front, the down face or the face opposite the down face.
C7_SpinTable ==
    /\ Len(spinArr) = 72
    /\ \A i \in 1..Len(spinArr) :
          /\ spinArr[i][1] \in ValidOrients
          /\ spinArr[i][2][1] = spinArr[i][1][1]
          /\ spinArr[i][2][2] \notin
                {spinArr[i][1][1], Opp(spinArr[i][1][1]), spinArr[i][1][2]}
    /\ \A o \in ValidOrients :
          /\ \A t \in Faces \ {o[1], Opp(o[1]), o[2]} :
                Cardinality({i \in 1..Len(spinArr) :
                    spinArr[i][1] = o /\ spinArr[i][2] = <<o[1], t>>}) = 1
          /\ {spinArr[i][3] : i \in {j \in 1..Len(spinArr) : spinArr[j][1] = o}}
                = {1, 0 - 1, 2}
    /\ pc_fn = "ret" =>
          IF fn_n_bot \in {fn_orient[2], fn_orient[1], Opp(fn_orient[1])}
          THEN fn_spin = 0
          ELSE /\ fn_spin # 0
               /\ \E i \in 1..Len(spinArr) :
                     spinArr[i] = <<fn_orient, <<fn_orient[1], fn_n_bot>>, fn_spin>>

C7_Witness ==
    /\ pc_fn = "ret"
    /\ fn_orient = <<"R", "B">>
    /\ fn_n_bot = "D"
    /\ fn_spin = 0 - 1

\* C8: for every valid orientation and target face flips_func returns 0 flips
\* exactly when the target is the down face, 1 exactly when it is adjacent to
\* the down face and 2 exactly when it is the face opposite the down face.
C8_FlipCount ==
    pc_fn = "ret" =>
        /\ fn_flips \in {0, 1, 2}
        /\ (fn_flips = 0) <=> (fn_n_bot = fn_orient[1])
        /\ (fn_flips = 2) <=> (fn_n_bot = Opp(fn_orient[1]))
        /\ (fn_flips = 1) <=> (fn_n_bot \notin {fn_orient[1], Opp(fn_orient[1])})

C8_Witness ==
    /\ pc_fn = "ret"
    /\ fn_n_bot = fn_orient[2]
    /\ fn_flips = 1

\* C9: when the target is the face opposite the down face the result is
\* computed on the flip sequence holding the current orientation: spin 0,
\* 2 flips, and the new front is the face opposite the previous front.
C9_OppositeFace ==
    (pc_fn = "ret" /\ fn_n_bot = Opp(fn_orient[1])) =>
        /\ InStr(fn_orient, fn_seq)
        /\ fn_spin = 0
        /\ fn_flips = 2
        /\ fn_n_front = Opp(fn_orient[2])

C9_Witness ==
    /\ pc_fn = "ret"
    /\ fn_orient = <<"F", "R">>
    /\ fn_n_bot = "B"
    /\ fn_flips = 2
    /\ fn_n_front = "L"

\* number of tokens of a solution string
NTokens(s) == Cardinality({i \in 1..Len(s) : s[i] \in Faces})

\* a signed one-digit number as it is written in a move string
Numeral(n) == IF n < 0 THEN <<"-", Digits[1 - n]>> ELSE <<Digits[n + 1]>>

\* C10: a solution of n tokens gives n entries keyed 1..n in token order, each
\* S<spin>F<flips>R<rot> with rot = 1, 2, -1 for the digits 1, 2, 3; the token
\* "U1" alone gives one entry with rotate field 1.
C10_OneEntryPerToken ==
    (pc_moves = "done" /\ solution_Text # "Error") =>
        /\ DOMAIN robot = 1..NTokens(solution_in)
        /\ \A i \in 1..NTokens(solution_in) :
              LET digit == solution_in[3 * (i - 1) + 2]
                  rot == IF digit = "1" THEN 1 ELSE IF digit = "2" THEN 2 ELSE 0 - 1
              IN  \E sp \in {0 - 1, 0, 1, 2}, fl \in {0, 1, 2} :
                     robot[i] = <<"S">> \o Numeral(sp) \o <<"F">> \o Numeral(fl)
                                 \o <<"R">> \o Numeral(rot)
        /\ solution_in = <<"U", "1">> =>
              (Len(robot) = 1 /\ move_rotations(robot[1]) = 1)

C10_Witness ==
    /\ pc_moves = "done"
    /\ solution_Text # "Error"
    /\ solution_in = <<"U", "1">>
    /\ DOMAIN robot = {1}

RECURSIVE ActionsOf(_, _)
\* robot actions of the first n emitted moves: one per move with a spin, one
\* per flip, one per move with a rotation
ActionsOf(rob, n) ==
    IF n = 0 THEN 0
    ELSE ActionsOf(rob, n - 1)
         + (IF move_spins(rob[n]) # 0 THEN 1 ELSE 0)
         + move_flips(rob[n])
         + (IF move_rotations(rob[n]) # 0 THEN 1 ELSE 0)

\* C11: the total returned by robot_moves is the sum over the emitted moves
\* of one for a non-zero spin, the number of flips, and one for a non-zero
\* rotation.
C11_TotalCountsActions ==
    (pc_moves \in {"loop", "done"}) =>
        /\ DOMAIN robot = 1..Len(robot)
        /\ robot_tot_moves = ActionsOf(robot, Len(robot))

C11_Witness ==
    /\ pc_moves = "done"
    /\ Len(robot) = 2
    /\ move_spins(robot[2]) = 2
    /\ move_rotations(robot[2]) = 2
    /\ move_rotations(robot[1]) = 0 - 1
    /\ robot_tot_moves = ActionsOf(robot, 2)

\* C12: with an empty solution string, or with solution_Text 'Error' and any
\* solution string, robot_moves raises nothing and returns an empty dict and
\* a total of 0.
C12_EmptyOrError ==
    (solution_in = <<>> \/ solution_Text = "Error") =>
        /\ pc_moves # "raised"
        /\ pc_moves \in {"loop", "done"} => (robot = <<>> /\ robot_tot_moves = 0)

C12_Witness ==
    /\ pc_moves = "done"
    /\ solution_Text = "Error"
    /\ solution_in = ErrorString
    /\ robot = <<>>
    /\ robot_tot_moves = 0

C12_WitnessEmpty ==
    /\ pc_moves = "done"
    /\ solution_Text # "Error"
    /\ solution_in = <<>>
    /\ robot = <<>>

\* the Spin column of the row of spinArr for orientation o and the face t
\* to bring to the front, 0 when the table has no such row
TableSpin(o, t) ==
    IF \E i \in 1..Len(spinArr) : spinArr[i][1] = o /\ spinArr[i][2] = <<o[1], t>>
    THEN spinArr[CHOOSE i \in 1..Len(spinArr) :
                    spinArr[i][1] = o /\ spinArr[i][2] = <<o[1], t>>][3]
    ELSE 0

\* C13: for "U2 D2 R2 L2 F2 B2" robot_moves returns 6 moves, each with the
\* rotation 2 and 0, 1 or 2 flips, and the spin of each move is the value of
\* the spin table for the orientation tracked before its token (0 when the
\* table has no row).
C13_DoubleTurns ==
    /\ [](( solution_in = example_solution_2 /\ pc_moves = "done") =>
            /\ DOMAIN robot = 1..6
            /\ \A i \in 1..6 :
                  /\ move_rotations(robot[i]) = 2
                  /\ move_flips(robot[i]) \in {0, 1, 2})
    /\ [][(solution_in = example_solution_2 /\ pc_moves = "loop" /\ move' = move + 1) =>
            move_spins(robot'[move + 1]) = TableSpin(Tracked, solution[1])]_vars

C13_Witness ==
    /\ solution_in = example_solution_2
    /\ pc_moves = "done"
    /\ Len(robot) = 6
    /\ move_spins(robot[1]) = 1
    /\ move_spins(robot[2]) = 0
    /\ move_spins(robot[5]) = 1
    /\ robot_tot_moves = 17

RECURSIVE TableReplay(_, _, _)
\* the orientation after the first n moves of rob, each replayed from o with
\* the spin table (the spin) and the flip sequences (the flips)
TableReplay(o, rob, n) ==
    IF n = 0 THEN o
    ELSE LET before == TableReplay(o, rob, n - 1)
             k == move_spins(rob[n])
             spun == IF k = 0 THEN before ELSE cube_after_spin(before, k)
         IN  cube_after_flips(spun, move_flips(rob[n]))

\* the solutions of 20 moves of the __main__ block
solutions_of_20 == {example_solution_1, example_solution_3}

\* C14 as stated: for the moves robot_moves generates from a known solution
\* of 20 moves, the replay through the spin table and the flip sequences from
\* the initial orientation ends at down = D, front = B.
C14_EndsAtDB ==
    (pc_moves = "done" /\ solution_in \in solutions_of_20) =>
        TableReplay(<<"R", "B">>, robot, Len(robot)) = <<"D", "B">>

\* C14 amended: for the moves robot_moves generates from a known solution of
\* 20 moves, the replay through the spin table and the flip sequences from
\* the initial orientation down = R, front = B ends at the orientation
\* robot_moves tracks at its return, whose down face is the face of the last
\* token: down = L, front = F for the first example solution, down = L,
\* front = U for the second.
C14_EndsAtLastToken ==
    (pc_moves = "done" /\ solution_in \in solutions_of_20) =>
        LET end == TableReplay(<<"R", "B">>, robot, Len(robot))
        IN  /\ Len(robot) = 20
            /\ end = <<c_bottom, c_front>>
            /\ end[1] = solution_in[Len(solution_in) - 1]
            /\ solution_in = example_solution_1 => end = <<"L", "F">>
            /\ solution_in = example_solution_3 => end = <<"L", "U">>

C14_Witness ==
    /\ pc_moves = "done"
    /\ solution_in = example_solution_1
    /\ Len(robot) = 20
    /\ TableReplay(<<"R", "B">>, robot, 20) = <<"L", "F">>
\* the text of a move as the code formats it
S1F1R2 == <<"S", "1", "F", "1", "R", "2">>

S2F1R2 == <<"S", "2", "F", "1", "R", "2">>

\* C29: for the solution 'R1 U2 F2 U3 B3 U3 F3 L1 B1 U1 D1 R2 L3 D2 B2 R1 D2
\* L3 D2 L3', processed from the initial orientation down = R, front = B, the
\* move robot_moves emits for step 2 is S1F1R2 and not S2F1R2.
C29_StepTwo ==
    (solution_in = example_solution_3 /\ pc_moves \in {"loop", "done"} /\ move >= 2) =>
        /\ 2 \in DOMAIN robot
        /\ robot[2] = S1F1R2
        /\ robot[2] # S2F1R2

\* the second block of that solution has just been translated, the first
\* one needed no spin and no flip
C29_Witness ==
    /\ solution_in = example_solution_3
    /\ pc_moves = "loop"
    /\ move = 2
    /\ robot[1] = <<"S", "0", "F", "0", "R", "1">>
    /\ robot[2] = S1F1R2
    /\ robot_tot_moves = 4

-----------------------------------------------------------------------------
(* Claims on the colour interpretation *)

\* the measured colour of facelet i (1-based) of the argument
bgr_of(i) == BGR_detected_arg[i].bgr

\* the six centres have pairwise different colours and each of them is the
\* colour of exactly 9 facelets
ExactInput ==
    /\ \A c, e \in 1..6 : c # e => bgr_of(centers[c] + 1) # bgr_of(centers[e] + 1)
    /\ \A c \in 1..6 : Cardinality({i \in 1..54 : bgr_of(i) = bgr_of(centers[c] + 1)}) = 9

\* C15: given 54 colours that are exactly the colours of six pairwise
\* different centres, 9 facelets of each, cube_colors_interpreted names every
\* facelet after the centre it equals, and no name is given to more than 9
C15_NamedAfterCentre ==
    (pc_interp \in {"BGR", "HSV"} /\ ExactInput) =>
        /\ \A i \in 1..54 : \A c \in 1..6 :
              bgr_of(i) = bgr_of(centers[c] + 1) => cube_status_BGR[i] = std_cube_color[c]
        /\ \A name \in {std_cube_color[c] : c \in 1..6} :
              Cardinality({i \in 1..54 : cube_status_BGR[i] = name}) <= 9

\* an exact input of a turned cube under the amber light, last facelet of the
\* first side of another colour than its centre, interpreted
C15_Witness ==
    /\ pc_interp = "BGR"
    /\ ExactInput
    /\ bgr_of(5) = Measured["amber"]["orange"]
    /\ bgr_of(9) # bgr_of(5)
    /\ cube_status_BGR[5] = "white"
    /\ cube_status_BGR[9] # "white"

\* Hue and V-S of centre c (1..6) as cube_colors_interpreted converts them
Hue_center(c) == HSV_detected_out[centers[c] + 1][1]

VS_center(c) == HSV_detected_out[centers[c] + 1][3] - HSV_detected_out[centers[c] + 1][2]

opp_center(c) == IF c <= 3 THEN c + 3 ELSE c - 3

\* a centre of Hue below 30 opposite to a centre of Hue above 150, none of
\* the two with the highest V-S of the six centres
OrangeFacesRed ==
    \E c \in 1..6 :
        /\ Hue_center(c) < 30
        /\ Hue_center(opp_center(c)) > 150
        /\ \E w \in 1..6 \ {c, opp_center(c)} :
              \A e \in 1..6 : e # w => VS_center(e) < VS_center(w)

\* C16 as stated: for every input whose facelets exactly match the six
\* centre colours cube_colors_interpreted returns HSV_analysis = True
C16_ExactGivesTrue ==
    (pc_interp \in {"BGR", "HSV"} /\ ExactInput) => analysis_BGR = TRUE

\* C16 amended: for the inputs whose facelets exactly match the six centre
\* colours cube_colors_interpreted returns HSV_analysis = True when a centre
\* of Hue below 30 is opposite to a centre of Hue above 150 (none of them the
\* centre of highest V-S), and False when the orange centre reads Hue 35
C16_TrueWhenOrangeFacesRed ==
    (pc_interp \in {"BGR", "HSV"} /\ ExactInput) =>
        /\ OrangeFacesRed => (analysis_BGR = TRUE /\ sequence_BGR \notin {center_text})
        /\ (\E c \in 1..6 : bgr_of(centers[c] + 1) = Measured["amber"]["orange"])
              => (analysis_BGR = FALSE /\ sequence_BGR = center_text)

\* a turned cube under the normal light, orange (Hue 6) on the front and
\* red (Hue 178) on the back, interpreted with HSV_analysis = True
C16_Witness ==
    /\ pc_interp = "BGR"
    /\ ExactInput
    /\ OrangeFacesRed
    /\ Hue_center(3) = 6
    /\ Hue_center(6) = 178
    /\ analysis_BGR = TRUE
    /\ sequence_BGR[3] = "orange"
    /\ sequence_BGR[6] = "red"

\* two of the six centres are read with the same Hue
SameHueCenters == \E c, e \in 1..6 : c # e /\ Hue_center(c) = Hue_center(e)

\* C17: if two of the six centres carry an identical Hue (the same side
\* scanned twice), cube_colors_interpreted_HSV returns HSV_analysis = False
C17_SameHueFails ==
    (pc_interp = "HSV" /\ SameHueCenters) => analysis_HSV = FALSE

\* the six colour names
color_names == {std_cube_color[c] : c \in 1..6}

\* the colour names sit on the centres as on a cube: white opposite to
\* yellow, red to orange, blue to green
OppositePairs(seq) ==
    \A c \in 1..6 :
        /\ seq[c] = "white" => seq[opp_center(c)] = "yellow"
        /\ seq[c] = "red" => seq[opp_center(c)] = "orange"
        /\ seq[c] = "blue" => seq[opp_center(c)] = "green"

\* C18: whenever retrieve_cube_color_order returns HSV_analysis = True, the
\* colour sequence is a permutation of the six colour names with white and
\* yellow, red and orange, blue and green on opposite centres
C18_SequenceIsPermutation ==
    (pc_interp \in {"BGR", "HSV"} /\ analysis_BGR = TRUE) =>
        /\ Len(sequence_BGR) = 6
        /\ {sequence_BGR[c] : c \in 1..6} = color_names
        /\ OppositePairs(sequence_BGR)

\* V+(V-S)-abs(3*deltaH) of facelet i (1-based), deltaH from the centre the
\* returned colour sequence names white
composite_score(i) ==
    LET Hw == Hue_center(ListIndex(sequence_HSV, "white") + 1)
    IN  HSV_detected_out[i][3] + HSV_detected_out[i][3] - HSV_detected_out[i][2]
        - Abs(3 * (HSV_detected_out[i][1] - Hw))

\* C19: whenever cube_colors_interpreted_HSV returns HSV_analysis = True,
\* exactly 9 of the 54 facelets are detected as white, no other facelet has a
\* higher composite score than one of them, and every facelet 0..53 carries
\* one colour name, in the detected status and in the status for the solver
C19_NineWhite ==
    (pc_interp = "HSV" /\ analysis_HSV = TRUE) =>
        LET white == {i \in 1..54 : cube_status_detected_out[i] = "white"}
        IN  /\ DOMAIN cube_status_detected_out = 1..54
            /\ DOMAIN cube_status_URFDLB_out = 1..54
            /\ Cardinality(white) = 9
            /\ \A i \in white : \A j \in (1..54) \ white :
                  composite_score(i) >= composite_score(j)
            /\ \A i \in 1..54 : /\ cube_status_detected_out[i] \in color_names
                                 /\ cube_status_URFDLB_out[i] \in color_names

\* a cube held with white to the back, facelets moved on, under the normal
\* light: the nine white facelets are found on the back and on the side
\* before it
C19_Witness ==
    /\ pc_interp = "HSV"
    /\ analysis_HSV = TRUE
    /\ sequence_HSV[6] = "white"
    /\ cube_status_detected_out[50] = "white"
    /\ cube_status_detected_out[54] # "white"
    /\ Cardinality({i \in 37..45 : cube_status_detected_out[i] = "white"}) >= 1
    /\ cube_status_URFDLB_out[50] = "blue"

-----------------------------------------------------------------------------
(* Claims on robot_move_cube *)

\* C22: once stop_cycle has set robot_stop while robot_move_cube is executing
\* a move sequence, robot_move_cube commands no further movement: no spin,
\* flip, rotate or stepper alignment is started for the rest of the current
\* move or for any later move.
C22_NoMoveAfterStop ==
    pc_button = "pressed" => late = {}

\* C24: if a servo.flip call made by robot_move_cube returns False (the cube
\* holder could not be aligned), quit_func is called before any further
\* flip, rotate or spin is commanded.
C24_QuitBeforeMoving ==
    after_failure \cap {"flip", "rotate", "spin"} = {}

\* C25: when the stop button is never pressed, the remaining moves shown on
\* the display start from the total computed by robot_moves, drop by one for
\* each spin action, each single flip and each rotate action, are never
\* negative, and are exactly 0 after the last move of the sequence.
C25_Countdown ==
    /\ [](pc_button = "armed" =>
            /\ remaining_moves >= 0
            /\ remaining_moves <= total_robot_moves
            /\ displayed # NotShown => displayed \in 0..total_robot_moves
            /\ pc_mc = "loop" =>
                  remaining_moves = total_robot_moves - total_of(robot_moves_arg, mc_i)
            /\ (pc_mc = "returned" /\ mc_i = Len(robot_moves_arg)) =>
                  (remaining_moves = 0 /\ displayed = 0))
    /\ [][pc_button' = "armed" =>
            remaining_moves' = remaining_moves -
                (IF pc_mc \in {"spin_call", "rotate_call"}
                    \/ (pc_mc = "flip_call" /\ mc_flip' = mc_flip + 1)
                 THEN 1 ELSE 0)]_vars

\* two moves with a spin, three flips and two rotations made, no stop, the
\* display at 0
C25_Witness ==
    /\ pc_button = "armed"
    /\ pc_mc = "returned"
    /\ mc_i = 2
    /\ total_robot_moves = 6
    /\ commands = <<"flip", "rotate", "spin", "flip", "flip", "rotate">>
    /\ displayed = 0

\* C23: during the reading phase on the robot, for every sequence of camera
\* frames: when the six faces have not all been read and more than
\* detection_timeout seconds have passed since the camera was ready, cubeAF
\* eventually calls robot_timeout_func and returns without classifying or
\* solving (or the script has been ended by the stop button).
C23_TimeoutEnds ==
    /\ [](timeout => (cube_status = <<>> /\ solver_calls = <<>>))
    /\ (pc_main = "read" /\ time_over) ~> (timeout \/ pc_main = "exited")

-----------------------------------------------------------------------------
(* Claims on InfiniteTimer *)

\* the Timers waiting for their time and the Timers whose thread is
\* executing the target
alive == { t \in DOMAIN timers : (timers[t] = "pending" /\ t \notin finished)
                                 \/ timers[t] = "target" }

\* C26: for one InfiniteTimer, under every interleaving of the start() and
\* cancel() calls of another thread with the firing of the timer threads,
\* there is never more than one pending Timer or executing target.
C26_OneChain == Cardinality(alive) <= 1

\* C27: after cancel() has returned on a started InfiniteTimer and no later
\* start() is called, the target begins at most one more execution.
C27_AtMostOneMore == after_cancel => executions <= 1

-----------------------------------------------------------------------------
(* Claims on align_motor *)

\* C28: whenever align_motor returns False the stepper motor has been
\* de-energised through motor_off and stepper_ms2 is low again.
C28_FailureLeavesMotorOff ==
    (pc_align = "returned" /\ align_ret = FALSE) =>
        /\ motor_off_calls > 0
        /\ stepper_enable = "HIGH"
        /\ stepper_ms2 = "LOW"

-----------------------------------------------------------------------------
(* Claims on the scan and solve cycle *)

\* the faces the scan shows to the camera, in the order of the reading
scan_faces == <<"U", "B", "D", "F", "R", "L">>

home_orient == <<"D", "F">>

first_call_failed == solver_calls[1].text = Str_Error

\* C4: in one scan cycle the solver is called first on the string of the BGR
\* interpretation; the HSV interpretation and a second call happen only when
\* the first call returned 'Error', and once only; when the cycle goes on to
\* the solving, detect_winner is 'BGR' if the first call succeeded, 'HSV' if
\* the first failed and the second succeeded, 'Error' if both failed.
C4_SolverCalls ==
    /\ Len(solver_calls) <= 2
    /\ \A i \in 1..Len(solver_calls) : solver_calls[i].cyc = cycle
    /\ Len(solver_calls) >= 1 => solver_calls[1].path = "BGR"
    /\ (Len(solver_calls) = 1 /\ pc_main \in {"fallback", "solve"}) =>
          solver_calls[1].str =
              cube_string(cube_colors_interpreted(URFDLB_facelets_BGR_mean))
    /\ Len(solver_calls) = 2 =>
          /\ first_call_failed
          /\ solver_calls[2].path = "HSV"
    /\ pc_main = "classify" => Len(solver_calls) = 0
    /\ pc_main = "fallback" => Len(solver_calls) = 1 /\ first_call_failed
    /\ pc_main \in {"solve", "solved", "raised"} =>
          /\ Len(solver_calls) >= 1
          /\ first_call_failed => Len(solver_calls) = 2
          /\ detect_winner =
                IF ~first_call_failed THEN "BGR"
                ELSE IF solver_calls[2].text # Str_Error THEN "HSV"
                ELSE "Error"

C4_Witness ==
    /\ pc_main = "solve"
    /\ lighting = "glare"
    /\ Len(solver_calls) = 2
    /\ solver_calls[1].text = Str_Error
    /\ solver_calls[2].text = Str_Error
    /\ detect_winner = "Error"

\* C5: in every scan cycle the list of the measured colours is empty when the
\* cycle starts, and the 54 colours given to the interpretation when the
\* sixth face is read are the ones measured during that cycle.
C5_MeasuresOfThisCycle ==
    /\ pc_main = "cubeAF" => BGR_mean = <<>>
    /\ pc_main = "classify" =>
          \A i \in 1..54 : URFDLB_facelets_BGR_mean[i].cyc = cycle

\* C6: every string passed to the solver, on the BGR path and on the HSV
\* path, has 54 characters, each one of U, R, F, D, L, B.
C6_SolverStrings ==
    \A i \in 1..Len(solver_calls) :
        /\ Len(solver_calls[i].str) = 54
        /\ \A k \in 1..Len(solver_calls[i].str) : solver_calls[i].str[k] \in Faces
====
